---- MODULE Spec2Model ----
(***************************************************************************)
(* Claim adjudication of the RCM backend: the three rule evaluators        *)
(* (ModularRuleEngine, Validator, ValidationTools), the tenant rules       *)
(* loader and the per-claim step of the static validation pipeline.        *)
(*                                                                         *)
(* Text is modelled as a sequence of one-character strings, so that        *)
(* upper(), strip(), slicing, padding, startswith() and the regular        *)
(* expressions are computed character by character.  Amounts are held in   *)
(* fils (1/100 AED).                                                       *)
(***************************************************************************)
EXTENDS Integers, Sequences, FiniteSets, TLC

(* ------------------------------ bounds --------------------------------- *)

\* longest diagnosis_codes list of a submitted claim
MaxDx == 2

\* number of times one claim is adjudicated again with unchanged inputs
MaxRuns == 2

(* --------------------------- text primitives --------------------------- *)

None == <<"None">>

LowerAlpha == <<"a","b","c","d","e","f","g","h","i","j","k","l","m",
                "n","o","p","q","r","s","t","u","v","w","x","y","z">>

UpperAlpha == <<"A","B","C","D","E","F","G","H","I","J","K","L","M",
                "N","O","P","Q","R","S","T","U","V","W","X","Y","Z">>

DigitChars == <<"0","1","2","3","4","5","6","7","8","9">>

\* collation order of the characters the model uses (ASCII order)
Collation == <<" ", "-", ".", ":">> \o DigitChars \o UpperAlpha \o LowerAlpha

Range(s) == {s[i] : i \in DOMAIN s}

UpperSet == Range(UpperAlpha)

LowerSet == Range(LowerAlpha)

DigitSet == Range(DigitChars)

IsUpperChar(c) == c \in UpperSet

IsDigitChar(c) == c \in DigitSet

\* the upper-case form of every character of the model
UpperOf ==
    [c \in Range(Collation) \cup {"#"} |->
        IF c \in LowerSet
        THEN UpperAlpha[CHOOSE i \in DOMAIN LowerAlpha : LowerAlpha[i] = c]
        ELSE c]

\* str.upper()
Upper(s) == [i \in DOMAIN s |-> UpperOf[s[i]]]

\* str.strip()
Strip(s) ==
    LET nonsp == {i \in DOMAIN s : s[i] # " "}
    IN  IF nonsp = {} THEN <<>>
        ELSE LET lo == CHOOSE i \in nonsp : \A j \in nonsp : i <= j
                 hi == CHOOSE i \in nonsp : \A j \in nonsp : j <= i
             IN  SubSeq(s, lo, hi)

\* Python truthiness of an optional string or list
Truthy(x) == x # None /\ x # <<>>

\* (x or "")
OrEmpty(x) == IF Truthy(x) THEN x ELSE <<>>

\* s[:n]
Prefix(s, n) == SubSeq(s, 1, IF Len(s) < n THEN Len(s) ELSE n)

\* s[-n:]
Suffix(s, n) == SubSeq(s, IF Len(s) < n THEN 1 ELSE Len(s) - n + 1, Len(s))

\* s.ljust(n, c)
Ljust(s, n, c) == s \o [i \in 1..(IF Len(s) < n THEN n - Len(s) ELSE 0) |-> c]

\* s.rjust(n, c)
Rjust(s, n, c) == [i \in 1..(IF Len(s) < n THEN n - Len(s) ELSE 0) |-> c] \o s

\* d.startswith(code)
StartsWith(d, code) == Len(code) <= Len(d) /\ SubSeq(d, 1, Len(code)) = code

RankOf == [c \in Range(Collation) |-> CHOOSE i \in DOMAIN Collation : Collation[i] = c]

CharRank(c) == RankOf[c]

\* a < b for Python str
RECURSIVE StrLess(_, _)
StrLess(a, b) ==
    IF b = <<>> THEN FALSE
    ELSE IF a = <<>> THEN TRUE
    ELSE IF a[1] = b[1] THEN StrLess(Tail(a), Tail(b))
    ELSE CharRank(a[1]) < CharRank(b[1])

\* re.fullmatch(r"^[A-Z0-9]{4}-[A-Z0-9]{4}-[A-Z0-9]{4}$", s)
MatchesUidPattern(s) ==
    /\ Len(s) = 14
    /\ \A i \in 1..14 :
          IF i \in {5, 10} THEN s[i] = "-"
          ELSE IsUpperChar(s[i]) \/ IsDigitChar(s[i])

\* re.fullmatch(r"^APP\d{3,}$", s)
MatchesAppPattern(s) ==
    /\ Len(s) >= 6
    /\ SubSeq(s, 1, 3) = <<"A","P","P">>
    /\ \A i \in 4..Len(s) : IsDigitChar(s[i])

\* re.compile(r'^[A-Z]{2,}[0-9]{3,}$').match(s)
MatchesLettersDigits(s) ==
    \E k \in 2..Len(s) :
        /\ Len(s) - k >= 3
        /\ \A i \in 1..k : IsUpperChar(s[i])
        /\ \A i \in (k+1)..Len(s) : IsDigitChar(s[i])

\* pattern.fullmatch(val) for the id patterns "^[A-Z0-9]{n,}$"
MatchesIdPattern(s, n) ==
    /\ Len(s) >= n
    /\ \A i \in DOMAIN s : IsUpperChar(s[i]) \/ IsDigitChar(s[i])

\* dict.get(k, default)
Get(d, k, default) == IF k \in DOMAIN d THEN d[k] ELSE default

(* ------------------------------ vocabulary ----------------------------- *)

J45NUMBE == <<"J","4","5","N","U","M","B","E">>

j45numbe == <<"j","4","5","n","u","m","b","e">>

UZF615NA == <<"U","Z","F","6","1","5","N","A">>

F_0DBYE6KP == <<"0","D","B","Y","E","6","K","P">>

F_EGVP0QAQ == <<"E","G","V","P","0","Q","A","Q">>

F_F1 == <<"F","1">>

N_AB == <<"A","B">>

U_j45nf615e6kp == <<"j","4","5","n","f","6","1","5","e","6","k","p">>

U_J45N_UZF6_E6KP == <<"J","4","5","N","-","U","Z","F","6","-","E","6","K","P">>

U_j45n_uzf6_e6kp == <<"j","4","5","n","-","u","z","f","6","-","e","6","k","p">>

U_J45N_UZF6_0DBY == <<"J","4","5","N","-","U","Z","F","6","-","0","D","B","Y">>

U_J45N_UZF6_0QAQ == <<"J","4","5","N","-","U","Z","F","6","-","0","Q","A","Q">>

U_ABXX_UZF6_XXF1 == <<"A","B","X","X","-","U","Z","F","6","-","X","X","F","1">>

E66_3 == <<"E","6","6",".","3">>

E66_9 == <<"E","6","6",".","9">>

E11_9 == <<"E","1","1",".","9">>

E11 == <<"E","1","1">>

N39_0 == <<"N","3","9",".","0">>

R07_9 == <<"R","0","7",".","9">>

Z34_0 == <<"Z","3","4",".","0">>

R73_03 == <<"R","7","3",".","0","3">>

J45_909 == <<"J","4","5",".","9","0","9">>

R51 == <<"R","5","1">>

G43_9 == <<"G","4","3",".","9">>

Srv(a, b, c, d) == <<"S","R","V",a,b,c,d>>

SRV1001 == Srv("1","0","0","1")

SRV1002 == Srv("1","0","0","2")

SRV1003 == Srv("1","0","0","3")

SRV2001 == Srv("2","0","0","1")

SRV2002 == Srv("2","0","0","2")

SRV2003 == Srv("2","0","0","3")

SRV2004 == Srv("2","0","0","4")

SRV2005 == Srv("2","0","0","5")

SRV2006 == Srv("2","0","0","6")

SRV2007 == Srv("2","0","0","7")

SRV2008 == Srv("2","0","0","8")

SRV2010 == Srv("2","0","1","0")

SRV2011 == Srv("2","0","1","1")

INPATIENT == <<"I","N","P","A","T","I","E","N","T">>

OUTPATIENT == <<"O","U","T","P","A","T","I","E","N","T">>

NA == <<"N","A">>

ObtainApproval == <<"O","b","t","a","i","n"," ","a","p","p","r","o","v","a","l">>

OBTAIN_APPROVAL == <<"O","B","T","A","I","N"," ","A","P","P","R","O","V","A","L">>

NAN == <<"N","A","N">>

APPROVED == <<"A","P","P","R","O","V","E","D">>

APP123 == <<"A","P","P","1","2","3">>

XYZ == <<"X","Y","Z">>

\* the literals of the wire format that stand for "no approval"
Sentinels == {<<>>, NA, ObtainApproval}

(* ------------------------------- amounts ------------------------------- *)

\* paid_amount_aed: a number (in fils), None, or a value float() rejects
Num(n) == [t |-> "num", fils |-> n]

NoneAmt == [t |-> "none", fils |-> 0]

BadAmt == [t |-> "bad", fils |-> 0]

\* float(claim.paid_amount_aed) raises
FloatRaises(a) == a.t = "bad"

\* float(x) if x is not None else 0.0, and 0.0 after "except Exception"
PaidOrZero(a) == IF a.t = "num" THEN a.fils ELSE 0

RECURSIVE DigitsOf(_)
DigitsOf(n) ==
    IF n < 10 THEN <<DigitChars[n + 1]>>
    ELSE DigitsOf(n \div 10) \o <<DigitChars[(n % 10) + 1]>>

\* str() of a float holding an amount with two decimals: 805.73, 250.0
FloatStr(fils) ==
    DigitsOf(fils \div 100) \o <<".">> \o
    (IF fils % 10 = 0 THEN <<DigitChars[((fils % 100) \div 10) + 1]>>
     ELSE <<DigitChars[((fils % 100) \div 10) + 1], DigitChars[(fils % 10) + 1]>>)

(* --------------------------- rules bundles ----------------------------- *)

\* RulesBundle(...): the dataclass of the loader
RulesBundle(services, diagnoses, dxApproval, threshold, idRules, registry, allowed) ==
    [services_requiring_approval   |-> services,
     diagnoses                     |-> diagnoses,
     diagnoses_requiring_approval  |-> dxApproval,
     paid_threshold_aed            |-> threshold,
     id_rules                      |-> idRules,
     facility_registry             |-> registry,
     service_allowed_facility_types |-> allowed]

\* dict.setdefault(k, v): the dict after the call
SetDefault(d, k, v) == IF k \in DOMAIN d THEN d ELSE d @@ (k :> v)

\* load_list(path): stripped lines, blank lines and # comments dropped
LoadList(lines) ==
    {Strip(lines[i]) : i \in {j \in DOMAIN lines :
        Strip(lines[j]) # <<>> /\ ~StartsWith(Strip(lines[j]), <<"#">>)}}

DefaultThreshold == 25000

\* TenantConfigLoader.load_rules_for_tenant: cfg is the parsed tenant JSON,
\* serviceLines and diagnosisLines are the lines of the two rule files.
\* A dict fetched from id_rules before the setdefault calls is the same
\* object as the one the calls fill; a dict made by a missing-key default is
\* a separate, empty one.
LoadRulesForTenant(cfg, serviceLines, diagnosisLines) ==
    LET threshold == Get(cfg, "paid_threshold_aed", DefaultThreshold)
        id0       == Get(cfg, "id_rules", <<>>)
        hadReg    == "facility_registry" \in DOMAIN id0
        hadSaf    == "service_allowed_facility_types" \in DOMAIN id0
        services  == (LoadList(serviceLines) \ {SRV1003}) \cup {SRV1001, SRV1002, SRV2008}
        diagnoses == LoadList(diagnosisLines)
        dxAppr    == {E11_9, R07_9, Z34_0}
        id1 == SetDefault(id0, "inpatient_only_services", <<SRV1001, SRV1002, SRV1003>>)
        id2 == SetDefault(id1, "outpatient_only_services",
                  <<SRV2001, SRV2002, SRV2003, SRV2004, SRV2006, SRV2007,
                    SRV2008, SRV2010, SRV2011>>)
        sdm0 == Get(id2, "service_diagnosis_map", <<>>)
        sdm  == SetDefault(SetDefault(SetDefault(SetDefault(SetDefault(sdm0,
                    SRV2007, <<E11_9>>), SRV2006, <<J45_909>>), SRV2001, <<R07_9>>),
                    SRV2008, <<Z34_0>>), SRV2005, <<N39_0>>)
        id3 == [k \in DOMAIN id2 \cup {"service_diagnosis_map"} |->
                   IF k = "service_diagnosis_map" THEN sdm ELSE id2[k]]
        id4 == SetDefault(id3, "mutually_exclusive_diagnoses",
                  <<<<R73_03, E11_9>>, <<E66_3, E66_9>>, <<R51, G43_9>>>>)
        id5 == SetDefault(id4, "facility_registry", <<>>)
        saf0 == Get(id5, "service_allowed_facility_types", <<>>)
        saf  == SetDefault(SetDefault(SetDefault(SetDefault(SetDefault(saf0,
                    SRV2008, <<"MATERNITY_HOSPITAL">>), SRV1003, <<"DIALYSIS_CENTER">>),
                    SRV2010, <<"DIALYSIS_CENTER">>), SRV2001, <<"CARDIOLOGY_CENTER">>),
                    SRV2011, <<"CARDIOLOGY_CENTER">>)
        id6 == [k \in DOMAIN id5 \cup {"service_allowed_facility_types"} |->
                   IF k = "service_allowed_facility_types" THEN saf ELSE id5[k]]
    IN  RulesBundle(services, diagnoses, dxAppr, threshold, id6,
                    IF hadReg THEN id6["facility_registry"] ELSE <<>>,
                    IF hadSaf THEN saf ELSE <<>>)

\* rules/<tenant>/services.txt and diagnoses.txt of the modelled tenants
ServiceLines == <<<<"#"," ","s","v","c">>, SRV1001, <<" ">> \o SRV1003, <<>>>>

DiagnosisLines == <<E66_3, E66_9, E11_9, N39_0, R07_9>>

\* a tenant config that leaves every optional table to the loader
CfgMinimal == [services_requiring_approval_file |-> "services.txt",
               diagnoses_file |-> "diagnoses.txt"]

\* a tenant config with a threshold, a facility registry and an allowed table
CfgFacilities ==
    [services_requiring_approval_file |-> "services.txt",
     diagnoses_file |-> "diagnoses.txt",
     paid_threshold_aed |-> 25000,
     id_rules |->
        [uppercase_required |-> TRUE,
         facility_registry |->
            (F_0DBYE6KP :> "DIALYSIS_CENTER") @@ (F_EGVP0QAQ :> "GENERAL_HOSPITAL"),
         service_allowed_facility_types |->
            (SRV2001 :> <<"CARDIOLOGY_CENTER">>) @@ (SRV1001 :> <<"GENERAL_HOSPITAL">>),
         service_diagnosis_map |-> (SRV1001 :> <<E11>>)]]

\* a bundle built by hand, as the repository's tests build one: SRV1003
\* needs approval, id patterns are set, every optional table is missing
BundleDirect ==
    RulesBundle({SRV1001, SRV1002, SRV1003, SRV2008},
                {E11_9, R07_9, Z34_0, E66_3, E66_9},
                {E11_9, R07_9},
                25000,
                [uppercase_required |-> TRUE,
                 patterns |-> <<<<"national_id", 5>>, <<"member_id", 5>>,
                                <<"facility_id", 3>>>>],
                <<>>, <<>>)

\* a hand-built bundle with a repeated exclusive group, a registry in which
\* a GENERAL_HOSPITAL is allowed nowhere, and no uppercase requirement
BundleGroups ==
    RulesBundle({SRV1001},
                {E11_9, E66_3, E66_9, N39_0},
                {E11_9},
                25000,
                [uppercase_required |-> FALSE,
                 inpatient_only_services |-> <<SRV1003>>,
                 outpatient_only_services |-> <<SRV2001, SRV1003>>,
                 service_diagnosis_map |-> (SRV2005 :> <<E66_3>>) @@ (SRV1003 :> <<E11, E66_9>>),
                 mutually_exclusive_diagnoses |->
                    <<<<E66_3, E66_9>>, <<E66_9, E66_3, N39_0>>, <<E11_9>>>>],
                (F_0DBYE6KP :> "DIALYSIS_CENTER") @@ (F_EGVP0QAQ :> "GENERAL_HOSPITAL"),
                (SRV1003 :> <<"CARDIOLOGY_CENTER">>) @@ (SRV2001 :> <<"DIALYSIS_CENTER">>))

LoadedMinimal == LoadRulesForTenant(CfgMinimal, ServiceLines, DiagnosisLines)

LoadedFacilities == LoadRulesForTenant(CfgFacilities, ServiceLines, DiagnosisLines)

Bundles == {LoadedMinimal, LoadedFacilities, BundleDirect, BundleGroups}

(* ------------------------- iteration and sorting ----------------------- *)

\* every diagnosis code that can occur in a claim or in a bundle
AllCodes == <<E11, E11_9, E66_3, E66_9, G43_9, J45_909, N39_0, R07_9, R51, R73_03, Z34_0>>

\* orders in which a Python set of codes may be iterated (hash randomisation)
IterOrders == {AllCodes, [i \in DOMAIN AllCodes |-> AllCodes[Len(AllCodes) + 1 - i]]}

\* list(S) for a set S under iteration order ord
SetIter(S, ord) == SelectSeq(ord, LAMBDA x : x \in S)

RECURSIVE InsertSorted(_, _)
InsertSorted(x, l) ==
    IF l = <<>> THEN <<x>>
    ELSE IF StrLess(l[1], x) THEN <<l[1]>> \o InsertSorted(x, Tail(l))
    ELSE <<x>> \o l

RECURSIVE SortList(_)
SortList(l) == IF l = <<>> THEN <<>> ELSE InsertSorted(l[1], SortList(Tail(l)))

\* the list handed to ', '.join() when the code forgets sorted()
Unsorted(l) == l

\* sorted(l) for a list of str
Sorted(l) == SortList(l)

\* concatenation of a list of lists
RECURSIVE Flatten(_)
Flatten(ll) == IF ll = <<>> THEN <<>> ELSE ll[1] \o Flatten(Tail(ll))

\* list(dict.fromkeys(l)): first occurrences, in order
RECURSIVE Dedup(_)
Dedup(l) ==
    IF l = <<>> THEN <<>>
    ELSE LET front == Dedup(SubSeq(l, 1, Len(l) - 1))
         IN  IF l[Len(l)] \in Range(front) THEN front ELSE Append(front, l[Len(l)])

(* ------------------------------- issues -------------------------------- *)

\* RuleIssue(category, message, action); the message is its template (kind)
\* and the values interpolated into it (args)
RuleIssue(category, kind, args, action) ==
    [category |-> category, message |-> [kind |-> kind, args |-> args], action |-> action]

IdFields == <<"national_id", "member_id", "facility_id", "service_code">>

\* the test without .upper()
EngineApprovalAbsentAsTyped(claim) ==
    Strip(OrEmpty(claim.approval_number)) \in {<<>>, NA, OBTAIN_APPROVAL}

\* "approval absent" as the three rules of rules/engine.py test it
EngineApprovalAbsent(claim) ==
    Upper(Strip(OrEmpty(claim.approval_number))) \in {<<>>, NA, OBTAIN_APPROVAL}

(* --------------------- rules/engine.py: Technical rules ---------------- *)

UppercaseIdRule(claim, rules) ==
    IF Get(rules.id_rules, "uppercase_required", TRUE)
    THEN Flatten([i \in DOMAIN IdFields |->
            LET val == claim[IdFields[i]]
            IN  IF Truthy(val) /\ val # Upper(val)
                THEN <<RuleIssue("Technical", "must be uppercase", <<IdFields[i]>>,
                                 <<"Convert to uppercase", IdFields[i]>>)>>
                ELSE <<>>])
    ELSE <<>>

\* first4(national_id)-first4(member_id)-last4(facility_id), padded with X
ExpectedUid(ni, mi, fi) ==
    Ljust(Prefix(ni, 4), 4, "X") \o <<"-">> \o Ljust(Prefix(mi, 4), 4, "X")
        \o <<"-">> \o Rjust(Suffix(fi, 4), 4, "X")

UidAction == <<"Format unique_id as first4(national_id)-middle4(member_id)-last4(facility_id)">>

UniqueIdFormatRule(claim, rules) ==
    LET uid == Upper(Strip(OrEmpty(claim.unique_id)))
        ni  == Upper(Strip(OrEmpty(claim.national_id)))
        mi  == Upper(Strip(OrEmpty(claim.member_id)))
        fi  == Upper(Strip(OrEmpty(claim.facility_id)))
    IN  IF uid = <<>> THEN <<>>
        ELSE IF ~MatchesUidPattern(uid)
        THEN <<RuleIssue("Technical", "unique_id is invalid", <<>>, UidAction)>>
        ELSE IF ni # <<>> /\ mi # <<>> /\ fi # <<>> /\ uid # ExpectedUid(ni, mi, fi)
        THEN <<RuleIssue("Technical", "unique_id should be", ExpectedUid(ni, mi, fi), UidAction)>>
        ELSE <<>>

ServiceApprovalRule(claim, rules) ==
    IF /\ Truthy(claim.service_code)
       /\ claim.service_code \in rules.services_requiring_approval
       /\ EngineApprovalAbsent(claim)
    THEN <<RuleIssue("Technical", "service requires approval", claim.service_code,
                     <<"Obtain prior approval for service code", claim.service_code>>)>>
    ELSE <<>>

DiagnosisApprovalRule(claim, rules) ==
    Flatten([i \in DOMAIN claim.diagnosis_codes |->
        IF /\ claim.diagnosis_codes[i] \in rules.diagnoses_requiring_approval
           /\ EngineApprovalAbsent(claim)
        THEN <<RuleIssue("Medical", "diagnosis requires approval", claim.diagnosis_codes[i],
                         <<"Obtain prior approval for diagnosis-driven care">>)>>
        ELSE <<>>])

PaidThresholdApprovalRule(claim, rules) ==
    LET paid == PaidOrZero(claim.paid_amount_aed)
        threshold == rules.paid_threshold_aed
    IN  IF paid > threshold /\ EngineApprovalAbsent(claim)
        THEN <<RuleIssue("Technical", "paid exceeds threshold", <<paid, threshold>>,
                         <<"Obtain approval for amount exceeding threshold">>)>>
        ELSE <<>>

(* ---------------------- rules/engine.py: Medical rules ----------------- *)

EncounterTypeRule(claim, rules) ==
    LET svc == OrEmpty(claim.service_code)
        et  == Upper(Strip(OrEmpty(claim.encounter_type)))
        inp == Range(Get(rules.id_rules, "inpatient_only_services", <<>>))
        outp == Range(Get(rules.id_rules, "outpatient_only_services", <<>>))
    IN  IF svc = <<>> THEN <<>>
        ELSE (IF svc \in inp /\ et # INPATIENT
              THEN <<RuleIssue("Medical", "INPATIENT-only", <<svc, claim.encounter_type>>,
                        <<"Change encounter type to INPATIENT or correct service code">>)>>
              ELSE <<>>)
             \o
             (IF svc \in outp /\ et # OUTPATIENT
              THEN <<RuleIssue("Medical", "OUTPATIENT-only", <<svc, claim.encounter_type>>,
                        <<"Change encounter type to OUTPATIENT or correct service code">>)>>
              ELSE <<>>)

\* the universal exception of FacilityTypeRule
IsGeneralHospital(facType) == facType = "GENERAL_HOSPITAL"

FacilityTypeRule(claim, rules) ==
    IF ~(Truthy(claim.facility_id) /\ Truthy(claim.service_code)) THEN <<>>
    ELSE LET facType == Get(rules.facility_registry,
                            Upper(Strip(OrEmpty(claim.facility_id))), "")
             allowed == Get(rules.service_allowed_facility_types, claim.service_code, <<>>)
         IN  IF IsGeneralHospital(facType) THEN <<>>
             ELSE IF facType # "" /\ allowed # <<>> /\ facType \notin Range(allowed)
             THEN <<RuleIssue("Medical", "not allowed for facility type",
                        <<claim.service_code, facType>>,
                        <<"Route to an allowed facility type or adjust service">>)>>
             ELSE <<>>

\* matches(code) of both service-diagnosis checks
DxMatches(code, provided) ==
    code \in provided \/ \E d \in provided : StartsWith(d, code)

ServiceDiagnosisDependencyRule(claim, rules, ord) ==
    LET svc == OrEmpty(claim.service_code)
        provided == Range(claim.diagnosis_codes)
        mapping == Get(rules.id_rules, "service_diagnosis_map", <<>>)
        req == Range(Get(mapping, svc, <<>>))
    IN  (IF req # {} /\ ~(\E code \in req : DxMatches(code, provided))
         THEN <<RuleIssue("Medical", "service requires diagnoses",
                    <<svc, Sorted(SetIter(req, ord))>>,
                    <<"Add required diagnosis or adjust service">>)>>
         ELSE <<>>)
        \o
        (IF N39_0 \in provided /\ svc # SRV2005
         THEN <<RuleIssue("Medical", "N39.0 requires SRV2005", <<>>,
                    <<"Order SRV2005 Urine Culture or update coding">>)>>
         ELSE <<>>)

\* the rule intersecting the diagnosis list, repeats included, with the group
MutuallyExclusiveCountingRepeats(claim, rules, ord) ==
    LET groups == Get(rules.id_rules, "mutually_exclusive_diagnoses", <<>>)
    IN  Flatten([g \in DOMAIN groups |->
            LET overlap == SelectSeq(claim.diagnosis_codes,
                                     LAMBDA d : d \in Range(groups[g]))
            IN  IF Len(overlap) > 1
                THEN <<RuleIssue("Medical", "mutually exclusive diagnoses",
                           Sorted(overlap),
                           <<"Review diagnosis coding; pick the most specific condition">>)>>
                ELSE <<>>])

MutuallyExclusiveDiagnosesRule(claim, rules, ord) ==
    LET provided == Range(claim.diagnosis_codes)
        groups == Get(rules.id_rules, "mutually_exclusive_diagnoses", <<>>)
    IN  Flatten([g \in DOMAIN groups |->
            LET overlap == provided \cap Range(groups[g])
            IN  IF Cardinality(overlap) > 1
                THEN <<RuleIssue("Medical", "mutually exclusive diagnoses",
                           Sorted(SetIter(overlap, ord)),
                           <<"Review diagnosis coding; pick the most specific condition">>)>>
                ELSE <<>>])

(* -------------------- rules/engine.py: ModularRuleEngine --------------- *)

\* the classification at the end of ModularRuleEngine.adjudicate
EngineClassify(cats) ==
    IF cats = {"Technical"} THEN "Technical"
    ELSE IF cats = {"Medical"} THEN "Medical"
    ELSE "Both"

\* the issues in rule order: technical_rules, then medical_rules
EngineIssues(claim, rules, ord) ==
    UppercaseIdRule(claim, rules)
        \o UniqueIdFormatRule(claim, rules)
        \o ServiceApprovalRule(claim, rules)
        \o DiagnosisApprovalRule(claim, rules)
        \o PaidThresholdApprovalRule(claim, rules)
        \o EncounterTypeRule(claim, rules)
        \o FacilityTypeRule(claim, rules)
        \o ServiceDiagnosisDependencyRule(claim, rules, ord)
        \o MutuallyExclusiveDiagnosesRule(claim, rules, ord)

\* rule.apply(claim, self.rules) of the i-th rule of technical_rules followed
\* by medical_rules
EngineRuleAt(i, claim, rules, ord) ==
    CASE i = 1 -> UppercaseIdRule(claim, rules)
      [] i = 2 -> UniqueIdFormatRule(claim, rules)
      [] i = 3 -> ServiceApprovalRule(claim, rules)
      [] i = 4 -> DiagnosisApprovalRule(claim, rules)
      [] i = 5 -> PaidThresholdApprovalRule(claim, rules)
      [] i = 6 -> EncounterTypeRule(claim, rules)
      [] i = 7 -> FacilityTypeRule(claim, rules)
      [] i = 8 -> ServiceDiagnosisDependencyRule(claim, rules, ord)
      [] i = 9 -> MutuallyExclusiveDiagnosesRule(claim, rules, ord)

EngineRuleCount == 9

\* what adjudicate returns once the two loops have filled issues
EngineResultOf(issues) ==
    IF issues = <<>>
    THEN [status |-> "Validated", error_type |-> "No error",
          explanations |-> <<>>, recommended_actions |-> <<>>, issues |-> <<>>]
    ELSE [status |-> "Not Validated",
          error_type |-> EngineClassify({issues[i].category : i \in DOMAIN issues}),
          explanations |-> [i \in DOMAIN issues |-> issues[i].message],
          recommended_actions |-> [i \in DOMAIN issues |-> issues[i].action],
          issues |-> [i \in DOMAIN issues |-> issues[i].category]]

\* ModularRuleEngine.adjudicate: the returned dict; "issues" keeps, next to
\* each explanation, the category its RuleIssue carried
EngineAdjudicate(claim, rules, ord) ==
    EngineResultOf(EngineIssues(claim, rules, ord))

(* ---------------------- utils/validators.py: Validator ----------------- *)

\* the approval check accepting the text APPROVED only
IsValidApprovalApprovedOnly(approval) ==
    IF ~Truthy(approval) THEN FALSE
    ELSE Upper(Strip(approval)) = APPROVED

\* Validator._is_valid_approval
IsValidApproval(approval) ==
    IF ~Truthy(approval) THEN FALSE
    ELSE LET appr == Upper(Strip(approval))
         IN  IF appr \in {NA, NAN, OBTAIN_APPROVAL, <<>>} THEN FALSE
             ELSE IF appr = APPROVED THEN TRUE
             ELSE MatchesAppPattern(appr)

\* the tag of the paid-amount seed
PaidTag == <<"P","A","I","D",":">>

\* f"{claim_id}:{subject}"
Seed(claimId, subject) == claimId \o <<":">> \o subject

\* int(hashlib.md5(seed.encode("utf-8")).hexdigest()[:6], 16) for the seeds
\* the modelled claims can produce (values of the real digest)
Md5Table ==
    (Seed(U_j45nf615e6kp, SRV1001) :> 7594641)
    @@ (Seed(U_j45nf615e6kp, SRV1003) :> 4725412)
    @@ (Seed(U_j45nf615e6kp, SRV2001) :> 13223362)
    @@ (Seed(U_j45nf615e6kp, SRV2005) :> 401490)
    @@ (Seed(U_j45nf615e6kp, SRV2008) :> 16696079)
    @@ (Seed(U_j45nf615e6kp, E66_3) :> 8890625)
    @@ (Seed(U_j45nf615e6kp, E66_9) :> 4388429)
    @@ (Seed(U_j45nf615e6kp, E11_9) :> 510742)
    @@ (Seed(U_j45nf615e6kp, N39_0) :> 2496663)
    @@ (Seed(U_j45nf615e6kp, PaidTag \o FloatStr(80573)) :> 7126087)
    @@ (Seed(U_j45nf615e6kp, PaidTag \o FloatStr(25000)) :> 11448574)
    @@ (Seed(U_j45n_uzf6_e6kp, SRV1001) :> 995298)
    @@ (Seed(U_j45n_uzf6_e6kp, SRV1003) :> 13428337)
    @@ (Seed(U_j45n_uzf6_e6kp, SRV2001) :> 9384388)
    @@ (Seed(U_j45n_uzf6_e6kp, SRV2005) :> 11801871)
    @@ (Seed(U_j45n_uzf6_e6kp, SRV2008) :> 8928488)
    @@ (Seed(U_j45n_uzf6_e6kp, E66_3) :> 6898596)
    @@ (Seed(U_j45n_uzf6_e6kp, E66_9) :> 4244578)
    @@ (Seed(U_j45n_uzf6_e6kp, E11_9) :> 5001925)
    @@ (Seed(U_j45n_uzf6_e6kp, N39_0) :> 8576607)
    @@ (Seed(U_j45n_uzf6_e6kp, PaidTag \o FloatStr(80573)) :> 15372983)
    @@ (Seed(U_j45n_uzf6_e6kp, PaidTag \o FloatStr(25000)) :> 6811608)
    @@ (Seed(U_J45N_UZF6_0DBY, SRV1001) :> 12666726)
    @@ (Seed(U_J45N_UZF6_0DBY, SRV1003) :> 10902067)
    @@ (Seed(U_J45N_UZF6_0DBY, SRV2001) :> 1996806)
    @@ (Seed(U_J45N_UZF6_0DBY, SRV2005) :> 15854055)
    @@ (Seed(U_J45N_UZF6_0DBY, SRV2008) :> 3261590)
    @@ (Seed(U_J45N_UZF6_0DBY, E66_3) :> 3798862)
    @@ (Seed(U_J45N_UZF6_0DBY, E66_9) :> 9901102)
    @@ (Seed(U_J45N_UZF6_0DBY, E11_9) :> 10695230)
    @@ (Seed(U_J45N_UZF6_0DBY, N39_0) :> 7140048)
    @@ (Seed(U_J45N_UZF6_0DBY, PaidTag \o FloatStr(80573)) :> 1044994)
    @@ (Seed(U_J45N_UZF6_0DBY, PaidTag \o FloatStr(25000)) :> 41559)
    @@ (Seed(<<>>, SRV1001) :> 9039916)
    @@ (Seed(<<>>, SRV1003) :> 8516469)
    @@ (Seed(<<>>, SRV2001) :> 10361372)
    @@ (Seed(<<>>, SRV2005) :> 2497638)
    @@ (Seed(<<>>, SRV2008) :> 1633514)
    @@ (Seed(<<>>, E66_3) :> 1655561)
    @@ (Seed(<<>>, E66_9) :> 11911577)
    @@ (Seed(<<>>, E11_9) :> 10397148)
    @@ (Seed(<<>>, N39_0) :> 16209959)
    @@ (Seed(<<>>, PaidTag \o FloatStr(80573)) :> 5162691)
    @@ (Seed(<<>>, PaidTag \o FloatStr(25000)) :> 873697)
    @@ (Seed(U_J45N_UZF6_E6KP, SRV1001) :> 2936710)
    @@ (Seed(U_J45N_UZF6_E6KP, SRV1003) :> 14725797)
    @@ (Seed(U_J45N_UZF6_E6KP, SRV2001) :> 14843048)
    @@ (Seed(U_J45N_UZF6_E6KP, SRV2005) :> 7692062)
    @@ (Seed(U_J45N_UZF6_E6KP, SRV2008) :> 7289519)
    @@ (Seed(U_J45N_UZF6_E6KP, E66_3) :> 7067708)
    @@ (Seed(U_J45N_UZF6_E6KP, E66_9) :> 967646)
    @@ (Seed(U_J45N_UZF6_E6KP, E11_9) :> 15388706)
    @@ (Seed(U_J45N_UZF6_E6KP, N39_0) :> 3320511)
    @@ (Seed(U_J45N_UZF6_E6KP, PaidTag \o FloatStr(80573)) :> 13141425)
    @@ (Seed(U_J45N_UZF6_E6KP, PaidTag \o FloatStr(25000)) :> 9639460)
    @@ (Seed(U_ABXX_UZF6_XXF1, SRV1001) :> 15302878)
    @@ (Seed(U_ABXX_UZF6_XXF1, SRV1003) :> 9873529)
    @@ (Seed(U_ABXX_UZF6_XXF1, SRV2001) :> 10322193)
    @@ (Seed(U_ABXX_UZF6_XXF1, SRV2005) :> 4590539)
    @@ (Seed(U_ABXX_UZF6_XXF1, SRV2008) :> 10655464)
    @@ (Seed(U_ABXX_UZF6_XXF1, E66_3) :> 11265264)
    @@ (Seed(U_ABXX_UZF6_XXF1, E66_9) :> 8079235)
    @@ (Seed(U_ABXX_UZF6_XXF1, E11_9) :> 7252352)
    @@ (Seed(U_ABXX_UZF6_XXF1, N39_0) :> 9325828)
    @@ (Seed(U_ABXX_UZF6_XXF1, PaidTag \o FloatStr(80573)) :> 4387975)
    @@ (Seed(U_ABXX_UZF6_XXF1, PaidTag \o FloatStr(25000)) :> 15993777)
    @@ (Seed(U_J45N_UZF6_0QAQ, SRV1001) :> 11133687)
    @@ (Seed(U_J45N_UZF6_0QAQ, SRV1003) :> 5492992)
    @@ (Seed(U_J45N_UZF6_0QAQ, SRV2001) :> 10719893)
    @@ (Seed(U_J45N_UZF6_0QAQ, SRV2005) :> 6453717)
    @@ (Seed(U_J45N_UZF6_0QAQ, SRV2008) :> 15005648)
    @@ (Seed(U_J45N_UZF6_0QAQ, E66_3) :> 6271024)
    @@ (Seed(U_J45N_UZF6_0QAQ, E66_9) :> 7283697)
    @@ (Seed(U_J45N_UZF6_0QAQ, E11_9) :> 12981642)
    @@ (Seed(U_J45N_UZF6_0QAQ, N39_0) :> 11975146)
    @@ (Seed(U_J45N_UZF6_0QAQ, PaidTag \o FloatStr(80573)) :> 15472760)
    @@ (Seed(U_J45N_UZF6_0QAQ, PaidTag \o FloatStr(25000)) :> 9195941)

Md5Head(seed) == Md5Table[seed]

\* the generator reducing the digest modulo 1000
ApprovalFromDigestMod1000(d) ==
    IF d.raised THEN APPROVED
    ELSE <<"A","P","P">> \o DigitsOf((d.head % 1000) + 100)

\* the body of Validator._generate_approval_number after the hashing: d.head
\* is int(h[:6], 16), d.raised tells that the try block raised
ApprovalFromDigest(d) ==
    IF d.raised THEN APPROVED
    ELSE <<"A","P","P">> \o DigitsOf((d.head % 900) + 100)

\* Validator._generate_approval_number
GenerateApprovalNumber(seed) ==
    ApprovalFromDigest([raised |-> FALSE, head |-> Md5Head(seed)])

\* _classify testing membership where the code tests equality
ClassifyByMembership(types) ==
    IF types = {} THEN "No error"
    ELSE IF "Technical" \in types THEN "Technical error"
    ELSE IF "Medical" \in types THEN "Medical error"
    ELSE "Both"

\* Validator._classify
Classify(types) ==
    IF types = {} THEN "No error"
    ELSE IF types = {"Technical"} THEN "Technical error"
    ELSE IF types = {"Medical"} THEN "Medical error"
    ELSE "Both"

\* Validator._default_actions
DefaultActions(etype) ==
    IF etype = "No error" THEN <<<<"Proceed with claim processing">>>>
    ELSE IF etype = "Technical error"
    THEN <<<<"Obtain prior approval for service">>, <<"Correct unique_id format">>,
           <<"Obtain prior approval for paid amount">>>>
    ELSE IF etype = "Medical error"
    THEN <<<<"Change encounter type or update service code">>, <<"Review diagnosis coding">>>>
    ELSE <<<<"Obtain prior approval for service">>, <<"Correct unique_id format">>,
           <<"Obtain prior approval for paid amount">>,
           <<"Change encounter type or update service code">>, <<"Review diagnosis coding">>>>

\* Validator.__init__: service_diagnosis_map with the two hard-coded entries
ValidatorServiceDiagnosisMap(rules) ==
    LET cfg == Get(rules.id_rules, "service_diagnosis_map", <<>>)
    IN  [k \in DOMAIN cfg \cup {SRV2005, SRV2001} |->
            IF k = SRV2005 THEN {N39_0}
            ELSE IF k = SRV2001 THEN {R07_9}
            ELSE Range(cfg[k])]

\* Validator.__init__: mutually_exclusive_diagnoses with its default group
ValidatorExclusiveGroups(rules) ==
    LET cfg == Get(rules.id_rules, "mutually_exclusive_diagnoses", <<>>)
    IN  IF cfg = <<>> THEN <<{R73_03, E11_9}>>
        ELSE [g \in DOMAIN cfg |-> Range(cfg[g])]

\* Validator.__init__ writing its two hard-coded entries into the bundle's
\* own service_diagnosis_map
ValidatorInitAliased(rules) ==
    LET cfg == Get(rules.id_rules, "service_diagnosis_map", <<>>)
        upd == [k \in DOMAIN cfg \cup {SRV2005, SRV2001} |->
                   IF k = SRV2005 THEN <<N39_0>>
                   ELSE IF k = SRV2001 THEN <<R07_9>>
                   ELSE cfg[k]]
    IN  [service_diagnosis_map |-> ValidatorServiceDiagnosisMap(rules),
         mutually_exclusive_diagnoses |-> ValidatorExclusiveGroups(rules),
         rules |-> [rules EXCEPT !.id_rules =
                      [k \in DOMAIN rules.id_rules \cup {"service_diagnosis_map"} |->
                          IF k = "service_diagnosis_map" THEN upd
                          ELSE rules.id_rules[k]]]]

\* Validator.__init__: the maps the object builds for itself out of fresh
\* sets and dicts, and self.rules, the caller's bundle as the constructor
\* leaves it
ValidatorInit(rules) ==
    [service_diagnosis_map |-> ValidatorServiceDiagnosisMap(rules),
     mutually_exclusive_diagnoses |-> ValidatorExclusiveGroups(rules),
     rules |-> rules]

\* one errors.append with the types.add, actions.append and corrections
\* update made beside it; corr is <<>> or <<how the entry is written, seed>>
Finding(category, kind, args, actions, corr) ==
    [category |-> category, message |-> [kind |-> kind, args |-> args],
     actions |-> actions, corr |-> corr]

VStructural(claim, rules) ==
    IF Get(rules.id_rules, "uppercase_required", TRUE)
    THEN Flatten([i \in DOMAIN IdFields |->
            LET val == claim[IdFields[i]]
            IN  IF Truthy(val) /\ val # Upper(val)
                THEN <<Finding("Technical", "must be uppercase", <<IdFields[i]>>, <<>>, <<>>)>>
                ELSE <<>>])
    ELSE <<>>

VUniqueId(claim) ==
    IF ~Truthy(claim.unique_id) THEN <<>>
    ELSE LET ni == Upper(Strip(OrEmpty(claim.national_id)))
             mi == Upper(Strip(OrEmpty(claim.member_id)))
             fi == Upper(Strip(OrEmpty(claim.facility_id)))
         IN  (IF ~MatchesUidPattern(claim.unique_id)
              THEN <<Finding("Technical", "unique_id is invalid", <<>>, <<>>, <<>>)>>
              ELSE <<>>)
             \o
             (IF /\ ni # <<>> /\ mi # <<>> /\ fi # <<>>
                 /\ Upper(Strip(claim.unique_id)) # ExpectedUid(ni, mi, fi)
              THEN <<Finding("Technical", "unique_id should be",
                             ExpectedUid(ni, mi, fi), <<>>, <<>>)>>
              ELSE <<>>)

VPatterns(claim, rules) ==
    LET pats == Get(rules.id_rules, "patterns", <<>>)
    IN  Flatten([i \in DOMAIN pats |->
            LET val == Get(claim, pats[i][1], None)
            IN  IF Truthy(val) /\ ~MatchesIdPattern(val, pats[i][2])
                THEN <<Finding("Technical", "does not match required pattern",
                               <<pats[i][1]>>, <<>>, <<>>)>>
                ELSE <<>>])

VServiceApproval(claim, rules) ==
    IF /\ Truthy(claim.service_code)
       /\ claim.service_code \in rules.services_requiring_approval
       /\ ~IsValidApproval(claim.approval_number)
    THEN <<Finding("Technical", "service requires approval", <<>>,
             <<<<"Obtain prior approval for this service code">>>>,
             <<"assign", Seed(claim.claim_id, claim.service_code)>>)>>
    ELSE <<>>

VDiagnoses(claim, rules, ord) ==
    IF claim.diagnosis_codes = <<>> THEN <<>>
    ELSE LET dx == claim.diagnosis_codes
             invalid == SelectSeq(dx, LAMBDA d : d \notin rules.diagnoses)
             groups == ValidatorExclusiveGroups(rules)
             sdm == ValidatorServiceDiagnosisMap(rules)
             required == IF Truthy(claim.service_code)
                         THEN Get(sdm, claim.service_code, {}) ELSE {}
         IN  (IF invalid # <<>>
              THEN <<Finding("Medical", "invalid diagnosis codes", invalid, <<>>, <<>>)>>
              ELSE <<>>)
             \o
             Flatten([g \in DOMAIN groups |->
                LET overlap == groups[g] \cap Range(dx)
                IN  IF Cardinality(overlap) > 1
                    THEN <<Finding("Medical", "mutually exclusive diagnoses",
                                   Sorted(SetIter(overlap, ord)), <<>>, <<>>)>>
                    ELSE <<>>])
             \o
             Flatten([i \in DOMAIN dx |->
                IF dx[i] \in rules.diagnoses_requiring_approval
                   /\ ~IsValidApproval(claim.approval_number)
                THEN <<Finding("Medical", "diagnosis requires approval", dx[i],
                         <<<<"Obtain prior approval for diagnosis-driven services">>>>,
                         <<"setdefault", Seed(claim.claim_id, dx[i])>>)>>
                ELSE <<>>])
             \o
             (IF required # {} /\ ~(\E req \in required : DxMatches(req, Range(dx)))
              THEN <<Finding("Medical", "service requires diagnoses",
                         <<claim.service_code, Sorted(SetIter(required, ord))>>,
                         <<<<"Add the required diagnosis or change service code">>>>, <<>>)>>
              ELSE <<>>)

\* the threshold check skipped once the service check has asked for approval
VPaidThresholdUnlessServiceFired(claim, rules) ==
    LET paid == PaidOrZero(claim.paid_amount_aed)
        threshold == rules.paid_threshold_aed
    IN  IF /\ paid > threshold
           /\ ~IsValidApproval(claim.approval_number)
           /\ VServiceApproval(claim, rules) = <<>>
        THEN <<Finding("Technical", "paid exceeds threshold", <<paid, threshold>>,
                 <<<<"Obtain approval for paid amount above threshold">>>>,
                 <<"if absent",
                   Seed(claim.claim_id, PaidTag \o FloatStr(paid))>>)>>
        ELSE <<>>

VPaidThreshold(claim, rules) ==
    LET paid == PaidOrZero(claim.paid_amount_aed)
        threshold == rules.paid_threshold_aed
    IN  IF paid > threshold /\ ~IsValidApproval(claim.approval_number)
        THEN <<Finding("Technical", "paid exceeds threshold", <<paid, threshold>>,
                 <<<<"Obtain approval for paid amount above threshold">>>>,
                 <<"if absent",
                   Seed(claim.claim_id, PaidTag \o FloatStr(paid))>>)>>
        ELSE <<>>

VEncounterType(claim, rules) ==
    IF ~Truthy(claim.service_code) THEN <<>>
    ELSE LET et == IF Truthy(claim.encounter_type)
                   THEN Upper(Strip(claim.encounter_type)) ELSE <<>>
             inp == Range(Get(rules.id_rules, "inpatient_only_services", <<>>))
             outp == Range(Get(rules.id_rules, "outpatient_only_services", <<>>))
         IN  (IF claim.service_code \in inp /\ et # INPATIENT
              THEN <<Finding("Medical", "INPATIENT-only",
                        <<claim.service_code, claim.encounter_type>>,
                        <<<<"Change encounter type to INPATIENT or correct service code">>>>,
                        <<>>)>>
              ELSE <<>>)
             \o
             (IF claim.service_code \in outp /\ et # OUTPATIENT
              THEN <<Finding("Medical", "OUTPATIENT-only",
                        <<claim.service_code, claim.encounter_type>>,
                        <<<<"Change encounter type to OUTPATIENT or correct service code">>>>,
                        <<>>)>>
              ELSE <<>>)

VFacilityType(claim, rules) ==
    IF ~(Truthy(claim.facility_id) /\ Truthy(claim.service_code)) THEN <<>>
    ELSE LET facType == Get(rules.facility_registry,
                            Upper(Strip(OrEmpty(claim.facility_id))), "")
             allowed == Range(Get(rules.service_allowed_facility_types,
                                  claim.service_code, <<>>))
         IN  IF facType # "" /\ allowed # {} /\ facType \notin allowed
             THEN <<Finding("Medical", "not allowed for facility type",
                        <<claim.service_code, facType>>,
                        <<<<"Route to an allowed facility type or adjust service code">>>>,
                        <<>>)>>
             ELSE <<>>

\* the findings of run_all in the order the method appends them
VFindings(claim, rules, ord) ==
    VStructural(claim, rules)
        \o VUniqueId(claim)
        \o VPatterns(claim, rules)
        \o VServiceApproval(claim, rules)
        \o VDiagnoses(claim, rules, ord)
        \o VPaidThreshold(claim, rules)
        \o VEncounterType(claim, rules)
        \o VFacilityType(claim, rules)

\* the corrections dict with every trigger assigning approval_number
VCorrectionsLastWins(f, n) ==
    LET triggers == {i \in 1..n : f[i].corr # <<>>}
    IN  IF triggers = {} THEN <<>>
        ELSE LET last == CHOOSE i \in triggers : \A j \in triggers : j <= i
             IN  [k \in {"approval_number"} |-> GenerateApprovalNumber(f[last].corr[2])]

\* the corrections dict after the findings f[1..n] were processed
RECURSIVE VCorrections(_, _)
VCorrections(f, n) ==
    IF n = 0 THEN <<>>
    ELSE LET before == VCorrections(f, n - 1)
             c == f[n].corr
         IN  IF c = <<>> THEN before
             ELSE IF c[1] = "assign" \/ "approval_number" \notin DOMAIN before
             THEN [k \in {"approval_number"} |-> GenerateApprovalNumber(c[2])]
             ELSE before

\* Validator.run_all: the returned dict; "issues" keeps, next to each
\* appended error, the category added to types beside it
RunAll(claim, rules, ord) ==
    LET f == VFindings(claim, rules, ord)
        errors == [i \in DOMAIN f |-> f[i].message]
        actions == Flatten([i \in DOMAIN f |-> f[i].actions])
        types == {f[i].category : i \in DOMAIN f}
        corrections == VCorrections(f, Len(f))
        dedup == Dedup(actions)
        explanations ==
            IF "approval_number" \in DOMAIN corrections
            THEN Append(errors, [kind |-> "Generated approval_number",
                                 args |-> corrections["approval_number"]])
            ELSE errors
        etype == Classify(types)
    IN  IF explanations = <<>>
        THEN [error_type |-> "No error", explanations |-> <<>>,
              recommended_actions |-> <<>>, corrections |-> corrections,
              issues |-> <<>>]
        ELSE [error_type |-> etype, explanations |-> explanations,
              recommended_actions |-> Dedup(dedup \o DefaultActions(etype)),
              corrections |-> corrections,
              issues |-> [i \in DOMAIN f |-> f[i].category]]

(* ------------- agent/tools/validation_tools.py: ValidationTools -------- *)

\* ValidationResult(is_valid, error_type, explanations, recommended_actions,
\* confidence); confidence in hundredths; "issues" as in the other evaluators
ValidationResult(valid, etype, findings, confidence) ==
    [is_valid |-> valid, error_type |-> etype,
     explanations |-> [i \in DOMAIN findings |-> findings[i].message],
     recommended_actions |-> Flatten([i \in DOMAIN findings |-> findings[i].actions]),
     confidence |-> confidence,
     issues |-> [i \in DOMAIN findings |-> findings[i].category]]

\* "approval absent" as ValidationTools tests it
ToolsApprovalAbsent(approval) ==
    ~Truthy(approval) \/ approval \in {NA, ObtainApproval, <<>>}

\* ValidationTools._is_valid_approval_number
IsValidApprovalNumber(approval) ==
    IF ~Truthy(approval) THEN FALSE ELSE MatchesLettersDigits(Upper(approval))

\* ValidationTools._validate_unique_id_format: <<>> for None, else the finding
ToolsValidateUniqueIdFormat(claim) ==
    IF ~(Truthy(claim.national_id) /\ Truthy(claim.member_id) /\ Truthy(claim.facility_id))
    THEN <<Finding("Technical", "unique_id cannot be validated", <<>>, <<UidAction>>, <<>>)>>
    ELSE LET expected == Prefix(claim.national_id, 4) \o <<"-">>
                            \o Prefix(claim.member_id, 4) \o <<"-">>
                            \o Prefix(claim.facility_id, 4)
         IN  IF claim.unique_id # expected
             THEN <<Finding("Technical", "unique_id should be", expected, <<UidAction>>, <<>>)>>
             ELSE <<>>

\* the findings of ValidationTools.check_id_format
ToolsIdFindings(claim, rules) ==
    LET pats == Get(rules.id_rules, "patterns", <<>>)
    IN  (IF Get(rules.id_rules, "uppercase_required", TRUE)
         THEN Flatten([i \in DOMAIN IdFields |->
                LET val == claim[IdFields[i]]
                IN  IF Truthy(val) /\ val # Upper(val)
                    THEN <<Finding("Technical", "must be uppercase", <<IdFields[i], val>>,
                              <<<<"Convert to uppercase", IdFields[i], Upper(val)>>>>, <<>>)>>
                    ELSE <<>>])
         ELSE <<>>)
        \o
        Flatten([i \in DOMAIN pats |->
            LET val == Get(claim, pats[i][1], None)
            IN  IF Truthy(val) /\ ~MatchesIdPattern(val, pats[i][2])
                THEN <<Finding("Technical", "does not match required pattern",
                          <<pats[i][1], val>>,
                          <<<<"Correct format according to rules", pats[i][1]>>>>, <<>>)>>
                ELSE <<>>])
        \o
        (IF Truthy(claim.unique_id) THEN ToolsValidateUniqueIdFormat(claim) ELSE <<>>)

\* ValidationTools.check_id_format
CheckIdFormat(claim, rules) ==
    LET f == ToolsIdFindings(claim, rules)
        uidFailed == Truthy(claim.unique_id) /\ ToolsValidateUniqueIdFormat(claim) # <<>>
    IN  IF f # <<>>
        THEN ValidationResult(FALSE, "Technical", f, IF uidFailed THEN 99 ELSE 95)
        ELSE ValidationResult(TRUE, "No error", <<>>, 100)

\* the findings of ValidationTools.apply_static_rules
ToolsStaticFindings(claim, rules) ==
    LET appr == claim.approval_number
        dx == claim.diagnosis_codes
        paid == PaidOrZero(claim.paid_amount_aed)
        threshold == rules.paid_threshold_aed
    IN  (IF /\ Truthy(claim.service_code)
            /\ claim.service_code \in rules.services_requiring_approval
            /\ ToolsApprovalAbsent(appr)
         THEN <<Finding("Technical", "service requires approval",
                   <<claim.service_code, appr>>,
                   <<<<"Obtain valid approval for service code", claim.service_code>>>>, <<>>)>>
         ELSE <<>>)
        \o
        Flatten([i \in DOMAIN dx |->
            IF dx[i] \in {E11_9, R07_9, Z34_0} /\ ToolsApprovalAbsent(appr)
            THEN <<Finding("Medical", "diagnosis requires approval", <<dx[i], appr>>,
                      <<<<"Obtain valid approval for diagnosis code", dx[i]>>>>, <<>>)>>
            ELSE <<>>])
        \o
        (IF FloatRaises(claim.paid_amount_aed)
         THEN <<Finding("Technical", "Invalid paid_amount_aed value", <<>>,
                   <<<<"Correct paid_amount_aed format">>>>, <<>>)>>
         ELSE IF paid > threshold /\ ToolsApprovalAbsent(appr)
         THEN <<Finding("Technical", "paid exceeds threshold", <<paid, threshold>>,
                   <<<<"Obtain approval for high paid amount", paid>>>>, <<>>)>>
         ELSE <<>>)
        \o
        (IF Truthy(appr) /\ appr \notin {NA, ObtainApproval, <<>>}
            /\ ~IsValidApprovalNumber(appr)
         THEN <<Finding("Technical", "Invalid approval_number format", appr,
                   <<<<"Provide valid approval number (e.g., APP001)">>>>, <<>>)>>
         ELSE <<>>)

\* the error type chosen at the end of apply_static_rules
ToolsStaticType(types) ==
    IF "Technical" \in types /\ "Medical" \in types THEN "Both"
    ELSE IF "Medical" \in types THEN "Medical"
    ELSE "Technical"

\* ValidationTools.apply_static_rules
ApplyStaticRules(claim, rules) ==
    LET f == ToolsStaticFindings(claim, rules)
    IN  IF f = <<>> THEN ValidationResult(TRUE, "No error", <<>>, 100)
        ELSE ValidationResult(FALSE,
                 ToolsStaticType({f[i].category : i \in DOMAIN f}), f, 95)

\* the overall error type of validate_claim_comprehensive
ToolsFinalType(errorTypes) ==
    IF errorTypes = {} THEN "No error"
    ELSE IF "Both" \in errorTypes \/ Cardinality(errorTypes) > 1 THEN "Both"
    ELSE CHOOSE t \in errorTypes : TRUE

\* ValidationTools.validate_claim_comprehensive
ValidateClaimComprehensive(claim, rules) ==
    LET idr == CheckIdFormat(claim, rules)
        rr  == ApplyStaticRules(claim, rules)
        errorTypes == (IF idr.is_valid THEN {} ELSE {idr.error_type})
                        \cup (IF rr.is_valid THEN {} ELSE {rr.error_type})
        allErrors == idr.explanations \o rr.explanations
        final == ToolsFinalType(errorTypes)
        conf == IF allErrors # <<>>
                THEN (IF idr.confidence < rr.confidence THEN idr.confidence ELSE rr.confidence)
                ELSE 100
    IN  [is_valid |-> errorTypes = {},
         error_type |-> final,
         explanations |-> allErrors,
         recommended_actions |-> idr.recommended_actions \o rr.recommended_actions,
         confidence |-> conf,
         issues |-> idr.issues \o rr.issues]

(* ------------------- pipeline/engine.py: ValidationEngine -------------- *)

\* the order table of reconcile_error_type, read with order.get(t, 0)
ReconcileOrder(t) ==
    IF t = "Technical" THEN 1
    ELSE IF t = "Medical" THEN 2
    ELSE IF t = "Both" THEN 3
    ELSE 0

\* reconcile_error_type(static_type, llm_type); llm_type "" stands for None
ReconcileErrorType(staticType, llmType) ==
    LET candidate == IF llmType = "" THEN staticType ELSE llmType
    IN  IF ReconcileOrder(candidate) >= ReconcileOrder(staticType)
        THEN candidate ELSE staticType

\* ValidationEngine._derive_final_action on claim.error_type
DeriveFinalAction(etype) ==
    IF etype = "No error" THEN "accept"
    ELSE IF etype = "Both" THEN "reject"
    ELSE IF etype = "Medical" THEN "escalate"
    ELSE "reject"

\* what GeminiClient.evaluate_claim can hand back: None, or a dict whose
\* error_type is free text ("" stands for a missing or null key)
LlmErrorTypes == {"", "No error", "Technical", "Medical", "Both",
                  "Technical error", "Medical error"}

LlmResponses ==
    {[kind |-> "none", error_type |-> ""]}
        \cup {[kind |-> "dict", error_type |-> t] : t \in LlmErrorTypes}

LlmExplanation == [kind |-> "llm explanation", args |-> <<>>]

LlmAction == <<"llm action">>

\* the Master columns written by _validate_claims_list for one claim
PendingRow(claim) ==
    [status |-> "pending", error_type |-> "No error",
     error_explanation |-> <<>>, recommended_action |-> <<>>,
     approval_number |-> claim.approval_number, llm |-> "not run"]

NoRefined == [status |-> "pending", error_type |-> "No error", final_action |-> ""]

\* the static part with "if result:" for the test of the error type
StaticRowAnyResult(claim, result) ==
    [status |-> "Not Validated", error_type |-> result.error_type,
     error_explanation |-> result.explanations,
     recommended_action |-> result.recommended_actions,
     approval_number |-> claim.approval_number, llm |-> "not run"]

\* the row after the static part of the loop body (lines 86-125)
StaticRow(claim, result) ==
    LET corrected == IF "approval_number" \in DOMAIN result.corrections
                     THEN result.corrections["approval_number"]
                     ELSE claim.approval_number
    IN  IF result.error_type # "No error"
        THEN [status |-> "Not Validated", error_type |-> result.error_type,
              error_explanation |-> result.explanations,
              recommended_action |-> result.recommended_actions,
              approval_number |-> corrected, llm |-> "not run"]
        ELSE [status |-> "Validated", error_type |-> "No error",
              error_explanation |-> <<>>, recommended_action |-> <<>>,
              approval_number |-> corrected, llm |-> "not run"]

\* the LLM block with an except branch that records nothing
LlmMergeSilentException(claim, row, resp) ==
    IF row.status # "Not Validated" THEN row
    ELSE IF FloatRaises(claim.paid_amount_aed) THEN row
    ELSE IF resp.kind = "dict"
    THEN [row EXCEPT
            !.error_explanation = Append(row.error_explanation, LlmExplanation),
            !.recommended_action = Append(row.recommended_action, LlmAction),
            !.error_type = ReconcileErrorType(row.error_type, resp.error_type),
            !.llm = "llm_evaluation_completed"]
    ELSE [row EXCEPT !.llm = "llm_evaluation_failed"]

\* the row after the LLM augmentation of the loop body (lines 155-219)
LlmMerge(claim, row, resp) ==
    IF row.status # "Not Validated" THEN row
    ELSE IF FloatRaises(claim.paid_amount_aed)
    THEN [row EXCEPT !.llm = "llm_evaluation_exception"]
    ELSE IF resp.kind = "dict"
    THEN [row EXCEPT
            !.error_explanation = Append(row.error_explanation, LlmExplanation),
            !.recommended_action = Append(row.recommended_action, LlmAction),
            !.error_type = ReconcileErrorType(row.error_type, resp.error_type),
            !.llm = "llm_evaluation_completed"]
    ELSE [row EXCEPT !.llm = "llm_evaluation_failed"]

(* -------------------------- models/models.py --------------------------- *)

\* the values of the error_type column
ErrorTypeEnum == {"Technical error", "Medical error", "Administrative", "Both", "No error"}

(* --------------- pipeline/agent_engine.py: AgentValidationEngine ------- *)

\* AgentValidationEngine._derive_final_action(agent_result)
AgentDeriveFinalAction(status, etype) ==
    IF status = "Validated" THEN "accept"
    ELSE IF etype = "Both" THEN "reject"
    ELSE IF etype = "Medical" THEN "escalate"
    ELSE "reject"

\* RCMValidationAgent._fallback_validation: the AgentResult built from the
\* result of ValidationTools.validate_claim_comprehensive
FallbackValidation(r) ==
    [status |-> IF r.is_valid THEN "Validated" ELSE "Not Validated",
     error_type |-> r.error_type,
     error_explanation |-> r.explanations,
     recommended_action |-> r.recommended_actions]

(* ------------------------------ the inputs ----------------------------- *)

DxPool == {E66_3, E66_9, E11_9}

DxLists == UNION {[1..k -> DxPool] : k \in 0..MaxDx}

\* a Master row as the evaluators read it; Master.unique_id is a property
\* over claim_id, so the two always hold the same value
Claim(nid, mid, fid, uid, et, dx, svc, paid, appr) ==
    [claim_id |-> uid, national_id |-> nid, member_id |-> mid, facility_id |-> fid,
     unique_id |-> uid, encounter_type |-> et, diagnosis_codes |-> dx,
     service_code |-> svc, paid_amount_aed |-> paid, approval_number |-> appr]

\* identifier quadruples: national_id, member_id, facility_id, unique_id
IdVariants ==
    {<<J45NUMBE, UZF615NA, F_0DBYE6KP, U_j45nf615e6kp>>,
     <<J45NUMBE, UZF615NA, F_0DBYE6KP, U_j45n_uzf6_e6kp>>,
     <<J45NUMBE, UZF615NA, F_0DBYE6KP, U_J45N_UZF6_0DBY>>,
     <<J45NUMBE, UZF615NA, F_0DBYE6KP, <<>>>>,
     <<j45numbe, UZF615NA, F_0DBYE6KP, U_J45N_UZF6_E6KP>>,
     <<N_AB, UZF615NA, F_F1, U_ABXX_UZF6_XXF1>>,
     <<N_AB, UZF615NA, F_F1, U_J45N_UZF6_E6KP>>,
     <<None, UZF615NA, F_0DBYE6KP, U_J45N_UZF6_0DBY>>,
     <<J45NUMBE, UZF615NA, F_EGVP0QAQ, U_J45N_UZF6_0QAQ>>}

IdBases ==
    {<<J45NUMBE, UZF615NA, F_0DBYE6KP, U_J45N_UZF6_E6KP>>}

\* encounter, diagnoses, service, paid, approval
CareBases ==
    {<<INPATIENT, <<E66_3>>, SRV1003, Num(80573), NA>>,
     <<OUTPATIENT, <<N39_0>>, SRV2005, Num(25000), APP123>>,
     <<INPATIENT, <<E66_3, E66_9>>, SRV1003, Num(25000), APP123>>,
     <<INPATIENT, <<E11_9, N39_0>>, SRV1001, BadAmt, XYZ>>,
     <<INPATIENT, <<N39_0>>, SRV1001, Num(25000), APP123>>,
     <<None, <<>>, SRV2001, NoneAmt, None>>}

Services == {SRV1001, SRV1003, SRV2001, SRV2005}

Encounters == {INPATIENT, OUTPATIENT}

Amounts == {Num(80573), Num(25000)}

Approvals == Sentinels \cup {APP123, XYZ}

Claims ==
    {Claim(i[1], i[2], i[3], i[4], c[1], c[2], c[3], c[4], c[5]) :
        i \in IdVariants, c \in CareBases}
    \cup
    {Claim(i[1], i[2], i[3], i[4], et, dx, svc, paid, appr) :
        i \in IdBases, et \in Encounters, dx \in DxLists, svc \in Services,
        paid \in Amounts, appr \in Approvals}

\* the largest value of six hexadecimal digits
HexHeadMax == (16 * 16 * 16 * 16 * 16 * 16) - 1

MaxHead == 1800

\* outcomes of the hashing: the low and the high end of the values of
\* int(h[:6], 16), and the exception
Digests ==
    {[raised |-> FALSE, head |-> h] :
        h \in (0..MaxHead) \cup ((HexHeadMax - MaxHead)..HexHeadMax)}
    \cup {[raised |-> TRUE, head |-> 0]}

NoClaim == Claim(None, None, None, None, None, <<>>, None, NoneAmt, None)

NoResult == [error_type |-> "", explanations |-> <<>>, recommended_actions |-> <<>>,
             issues |-> <<>>]

MaxCalls == 2

CallIds == 1..MaxCalls

\* a call that has not begun
IdleCall ==
    [kind |-> "", claim |-> NoClaim, step |-> 0, issues |-> <<>>,
     result |-> NoResult, pc |-> "idle"]

NoBatch == [bundle0 |-> <<>>, calls |-> <<>>]

\* the bundles and the claims of the batches
SharedBundles == {BundleDirect, BundleGroups, LoadedFacilities}

SharedClaims ==
    {Claim(i[1], i[2], i[3], i[4], et, <<N39_0>>, svc, Num(25000), APP123) :
        i \in IdBases, et \in Encounters, svc \in {SRV2001, SRV2005}}

MaxBatches == 2

\* what the two loops count
NoCounters == [validated |-> 0, failed |-> 0, agent_errors |-> 0]

\* no tenant tables
NoDb == [engine |-> "", master |-> <<>>, metrics |-> <<>>, audit |-> <<>>,
         ids |-> {}, todo |-> {}, cur |-> 0, counters |-> NoCounters,
         batches |-> 0, phase |-> "idle"]

\* national_id, member_id, facility_id and claim_id of the tenant's rows
TenantIds ==
    <<<<J45NUMBE, UZF615NA, F_0DBYE6KP, U_J45N_UZF6_E6KP>>,
      <<J45NUMBE, UZF615NA, F_0DBYE6KP, U_J45N_UZF6_0DBY>>>>

\* the primary keys of the tenant's rows
TenantRows == DOMAIN TenantIds

\* encounter, diagnoses, service, paid, approval of the tenant's rows
TenantCare ==
    {<<INPATIENT, <<E66_3>>, SRV1001, Num(25000), NA>>,
     <<INPATIENT, <<E66_3>>, SRV1001, Num(25000), APP123>>,
     <<INPATIENT, <<E66_3>>, SRV1001, Num(80573), <<>>>>,
     <<INPATIENT, <<>>, SRV2001, Num(25000), APP123>>,
     <<INPATIENT, <<E11_9, N39_0>>, SRV1001, BadAmt, XYZ>>}

\* a row of claims_master before its first validation
MasterRow(k, c) ==
    LET cl == Claim(TenantIds[k][1], TenantIds[k][2], TenantIds[k][3], TenantIds[k][4],
                    c[1], c[2], c[3], c[4], c[5])
    IN  [claim |-> cl, row |-> PendingRow(cl), history |-> <<>>]

\* the answers of the LLM client in the batches
BatchLlmResponses ==
    {[kind |-> "none", error_type |-> ""], [kind |-> "dict", error_type |-> "Both"],
     [kind |-> "dict", error_type |-> "Medical"]}

\* the AgentResults _parse_agent_result and _parse_text_result build from an
\* answer of the agent that keeps to the prompt's vocabulary
ParsedAgentResults ==
    {[status |-> st, error_type |-> et,
      error_explanation |-> <<[kind |-> "agent explanation", args |-> <<>>]>>,
      recommended_action |-> <<<<"Review agent reasoning">>>>] :
        st \in {"Validated", "Not Validated"}, et \in {"No error", "Medical"}}

\* the order in which the rows of a GROUP BY error_type are laid down
ErrorTypeOrder == <<"No error", "Technical error", "Medical error", "Both",
                    "Technical", "Medical", "Administrative">>

NoGen == [digest |-> [raised |-> TRUE, head |-> 0], out |-> <<>>]

(* ---------------------------- the state machine ------------------------ *)

VARIABLES
    rules,      \* the RulesBundle the evaluator was constructed with
    impl,       \* the evaluator in use: "engine", "validator", "tools", "pipeline"
    claim,      \* the claim handed in
    result,     \* what the last evaluation returned
    prev,       \* what the evaluation before it returned for the same inputs
    runs,       \* evaluations of the current claim so far
    row,        \* the claim's Master columns as the pipeline wrote them
    refined,    \* the Refined record the pipeline created
    pc,         \* "idle", "submitted", "returned", "llm called", "persisted"
    batch,      \* the adjudications running side by side on the one bundle
    gen,        \* a digest handed to the approval-number generator, and its output
    db          \* a tenant's tables and the validation batch running over them

vars == <<rules, impl, claim, result, prev, runs, row, refined, pc, batch, gen, db>>

Impls == {"engine", "validator", "tools", "pipeline"}

Init ==
    /\ rules \in Bundles
    /\ impl \in Impls
    /\ claim = NoClaim
    /\ result = NoResult
    /\ prev = NoResult
    /\ runs = 0
    /\ row = PendingRow(NoClaim)
    /\ refined = NoRefined
    /\ pc = "idle"
    /\ batch = NoBatch
    /\ gen = NoGen
    /\ db = NoDb

\* a caller hands a claim to the evaluator
Submit(c) ==
    /\ pc = "idle"
    /\ claim' = c
    /\ row' = PendingRow(c)
    /\ pc' = "submitted"
    /\ UNCHANGED <<batch, gen, db, rules, impl, result, prev, runs, refined>>

Returned(r) ==
    /\ pc \in {"submitted", "returned"}
    /\ runs < MaxRuns
    /\ prev' = result
    /\ result' = r
    /\ runs' = runs + 1
    /\ pc' = "returned"
    /\ UNCHANGED <<batch, gen, db, rules, impl, claim, row, refined>>

\* ModularRuleEngine(rules).adjudicate(claim)
Adjudicate(ord) ==
    /\ impl = "engine"
    /\ Returned(EngineAdjudicate(claim, rules, ord))

\* Validator(rules).run_all(claim)
ValidatorRunAll(ord) ==
    /\ impl = "validator"
    /\ Returned(RunAll(claim, rules, ord))

\* ValidationTools(rules, session).validate_claim_comprehensive(claim)
ToolsValidate ==
    /\ impl = "tools"
    /\ Returned(ValidateClaimComprehensive(claim, rules))

\* one iteration of the loop of ValidationEngine._validate_claims_list, up
\* to the call of the LLM client (lines 76-172); a Validated claim, and a
\* claim whose model_to_dict raises, end the iteration here
ValidateClaimsListStep(ord) ==
    /\ impl = "pipeline"
    /\ pc = "submitted"
    /\ \E r \in {RunAll(claim, rules, ord)} :
         \E static \in {StaticRow(claim, r)} :
           \E called \in {static.status = "Not Validated"
                             /\ ~FloatRaises(claim.paid_amount_aed)} :
              /\ result' = r
              /\ refined' = [status |-> static.status, error_type |-> static.error_type,
                             final_action |-> DeriveFinalAction(static.error_type)]
              /\ row' = IF called THEN static
                        ELSE LlmMerge(claim, static, [kind |-> "none", error_type |-> ""])
              /\ pc' = IF called THEN "llm called" ELSE "persisted"
    /\ prev' = result
    /\ runs' = runs + 1
    /\ UNCHANGED <<batch, gen, db, rules, impl, claim>>

\* the LLM client returns and the iteration ends (lines 173-219)
LlmReturns(resp) ==
    /\ pc = "llm called"
    /\ row' = LlmMerge(claim, row, resp)
    /\ pc' = "persisted"
    /\ UNCHANGED <<batch, gen, db, rules, impl, claim, result, prev, runs, refined>>

\* the iteration with an except branch that leaves the claim as it was
AgentIterationLeavesPending(c, ar) ==
    IF FloatRaises(c.paid_amount_aed)
    THEN [raised |-> TRUE, row |-> PendingRow(c), refined |-> NoRefined]
    ELSE [raised |-> FALSE,
          row |-> [status |-> ar.status, error_type |-> ar.error_type,
                   error_explanation |-> ar.error_explanation,
                   recommended_action |-> ar.recommended_action,
                   approval_number |-> c.approval_number, llm |-> "not run"],
          refined |-> [status |-> ar.status, error_type |-> ar.error_type,
                       final_action |-> AgentDeriveFinalAction(ar.status, ar.error_type)]]

\* the claim row and the Refined row after one iteration of the loop of
\* AgentValidationEngine._validate_claims_with_agent with the agent answering
\* the AgentResult ar; _claim_to_dict raising on the paid amount sends the
\* iteration to its except branch before the agent is called
AgentIteration(c, ar) ==
    IF FloatRaises(c.paid_amount_aed)
    THEN [raised |-> TRUE,
          row |-> [status |-> "Not Validated", error_type |-> "Technical",
                   error_explanation |-> <<[kind |-> "Agent validation failed", args |-> <<>>]>>,
                   recommended_action |-> <<<<"Manual review required">>>>,
                   approval_number |-> c.approval_number, llm |-> "not run"],
          refined |-> NoRefined]
    ELSE [raised |-> FALSE,
          row |-> [status |-> ar.status, error_type |-> ar.error_type,
                   error_explanation |-> ar.error_explanation,
                   recommended_action |-> ar.recommended_action,
                   approval_number |-> c.approval_number, llm |-> "not run"],
          refined |-> [status |-> ar.status, error_type |-> ar.error_type,
                       final_action |-> AgentDeriveFinalAction(ar.status, ar.error_type)]]

\* one iteration of the loop of AgentValidationEngine._validate_claims_with_agent
\* when the agent executor raises and validate_claim answers with its fallback
AgentValidateClaim ==
    /\ impl = "tools"
    /\ pc = "submitted"
    /\ \E r \in {ValidateClaimComprehensive(claim, rules)} :
         \E it \in {AgentIteration(claim, FallbackValidation(r))} :
            /\ result' = r
            /\ row' = it.row
            /\ refined' = it.refined
    /\ prev' = result
    /\ runs' = runs + 1
    /\ pc' = "persisted"
    /\ UNCHANGED <<batch, gen, db, rules, impl, claim>>

\* the caller is done with the claim
NextClaim ==
    /\ pc \in {"returned", "persisted"}
    /\ claim' = NoClaim
    /\ result' = NoResult
    /\ prev' = NoResult
    /\ runs' = 0
    /\ row' = PendingRow(NoClaim)
    /\ refined' = NoRefined
    /\ pc' = "idle"
    /\ UNCHANGED <<batch, gen, db, rules, impl>>

Next ==
    \/ \E c \in Claims : Submit(c)
    \/ \E ord \in IterOrders : Adjudicate(ord)
    \/ \E ord \in IterOrders : ValidatorRunAll(ord)
    \/ ToolsValidate
    \/ \E ord \in IterOrders : ValidateClaimsListStep(ord)
    \/ \E resp \in LlmResponses : LlmReturns(resp)
    \/ AgentValidateClaim
    \/ NextClaim

Spec == Init /\ [][Next]_vars

(* ------------------------------ properties ----------------------------- *)

\* result holds an evaluation of claim
Evaluated == pc \in {"returned", "llm called", "persisted"}

\* the evaluator behind impl, applied to a claim of one's choosing
Evaluate(c) ==
    IF impl = "engine" THEN EngineAdjudicate(c, rules, AllCodes)
    ELSE IF impl = "tools" THEN ValidateClaimComprehensive(c, rules)
    ELSE RunAll(c, rules, AllCodes)

\* the four classes, whichever of the two spellings the evaluator uses
ErrorClass(t) ==
    IF t \in {"Technical", "Technical error"} THEN "Technical"
    ELSE IF t \in {"Medical", "Medical error"} THEN "Medical"
    ELSE t

ErrorTypeNames ==
    IF impl \in {"engine", "tools"} THEN {"No error", "Technical", "Medical", "Both"}
    ELSE {"No error", "Technical error", "Medical error", "Both"}

\* the positions of the explanations of r made from template kind
Positions(r, kind) == {i \in DOMAIN r.explanations : r.explanations[i].kind = kind}

C3_RepeatedAdjudicationAgrees ==
    (pc = "returned" /\ runs >= 2) => result = prev

\* C3 witness: a second run whose result names several codes taken from a set
C3_Witness ==
    /\ pc = "returned"
    /\ runs >= 2
    /\ \E i \in Positions(result, "mutually exclusive diagnoses") :
          Len(result.explanations[i].args) >= 2

ApprovalKinds ==
    {"service requires approval", "diagnosis requires approval", "paid exceeds threshold"}

\* the approval-related issues of r, in order: the kind, and the diagnosis
\* for a diagnosis approval
ApprovalIssues(r) ==
    LET appr == SelectSeq(r.explanations, LAMBDA e : e.kind \in ApprovalKinds)
    IN  [i \in DOMAIN appr |->
            <<appr[i].kind,
              IF appr[i].kind # "diagnosis requires approval" THEN <<>>
              ELSE IF impl = "tools" THEN appr[i].args[1]
              ELSE appr[i].args>>]

\* C4: claims that differ only in which absent-approval sentinel they carry
\* get the same error_type and the same approval-related issues
C4_SentinelsAreEquivalent ==
    (Evaluated /\ claim.approval_number \in Sentinels) =>
        \A s \in Sentinels :
            LET other == Evaluate([claim EXCEPT !.approval_number = s])
            IN  /\ other.error_type = result.error_type
                /\ ApprovalIssues(other) = ApprovalIssues(result)

\* C4 witness: "Obtain approval" on a claim that raises all three approval issues
C4_Witness ==
    /\ Evaluated
    /\ claim.approval_number = ObtainApproval
    /\ \A k \in ApprovalKinds : Positions(result, k) # {}

\* the total order No error < Technical < Medical < Both
Severity(t) ==
    IF ErrorClass(t) = "Technical" THEN 1
    ELSE IF ErrorClass(t) = "Medical" THEN 2
    ELSE IF ErrorClass(t) = "Both" THEN 3
    ELSE 0

\* C5: after the LLM reconciliation the claim's error_type is never lower
\* than the statically computed one in No error < Technical < Medical < Both
C5_LlmNeverDowngrades ==
    (pc = "persisted" /\ impl = "pipeline" /\ row.llm = "llm_evaluation_completed") =>
        Severity(row.error_type) >= Severity(result.error_type)

\* the facility type the registry gives for the claim's facility_id
ResolvedFacilityType ==
    Get(rules.facility_registry, Upper(Strip(OrEmpty(claim.facility_id))), "")

\* C6: a GENERAL_HOSPITAL facility never gets a facility-type issue; any
\* other known type outside the service's known allowed set gets a Medical one
C6_GeneralHospitalIsExempt ==
    (/\ Evaluated
     /\ impl \in {"engine", "validator", "pipeline"}
     /\ Truthy(claim.facility_id)
     /\ Truthy(claim.service_code)) =>
        LET allowed == Get(rules.service_allowed_facility_types, claim.service_code, <<>>)
            raised == Positions(result, "not allowed for facility type")
        IN  IF ResolvedFacilityType = "GENERAL_HOSPITAL" THEN raised = {}
            ELSE (/\ ResolvedFacilityType # ""
                  /\ allowed # <<>>
                  /\ ResolvedFacilityType \notin Range(allowed)) =>
                     /\ raised # {}
                     /\ \A i \in raised : result.issues[i] = "Medical"

\* first4(national_id)-first4(member_id)-last4(facility_id) of the claim
ClaimExpectedUid ==
    ExpectedUid(Upper(Strip(OrEmpty(claim.national_id))),
                Upper(Strip(OrEmpty(claim.member_id))),
                Upper(Strip(OrEmpty(claim.facility_id))))

\* C7: a unique_id that differs (case-insensitively) from the expected value
\* raises a Technical issue whose text states the expected value
C7_MismatchStatesExpectedUid ==
    (/\ Evaluated
     /\ Truthy(claim.unique_id)
     /\ Truthy(claim.national_id) /\ Truthy(claim.member_id) /\ Truthy(claim.facility_id)
     /\ Upper(Strip(claim.unique_id)) # ClaimExpectedUid) =>
        \E i \in Positions(result, "unique_id should be") :
            /\ result.explanations[i].args = ClaimExpectedUid
            /\ result.issues[i] = "Technical"

\* C8: service approval required, approval absent and amount above the
\* threshold raise two separate Technical issues, one for each rule
C8_TwoApprovalIssues ==
    (/\ Evaluated
     /\ Truthy(claim.service_code)
     /\ claim.service_code \in rules.services_requiring_approval
     /\ claim.approval_number \in Sentinels
     /\ claim.paid_amount_aed.t = "num"
     /\ claim.paid_amount_aed.fils > rules.paid_threshold_aed) =>
        LET svc == Positions(result, "service requires approval")
            paid == Positions(result, "paid exceeds threshold")
        IN  /\ Cardinality(svc) = 1
            /\ Cardinality(paid) = 1
            /\ \A i \in svc \cup paid : result.issues[i] = "Technical"

\* C8 witness: SRV1001 at 805.73 AED with approval "NA" through the Validator
C8_Witness ==
    /\ Evaluated
    /\ impl = "validator"
    /\ claim.service_code = SRV1001
    /\ claim.approval_number = NA
    /\ claim.paid_amount_aed = Num(80573)
    /\ Positions(result, "service requires approval") # {}
    /\ Positions(result, "paid exceeds threshold") # {}

ConfiguredGroups == Get(rules.id_rules, "mutually_exclusive_diagnoses", <<>>)

\* the codes of configured group g among the claim's diagnoses, ascending
GroupOverlap(g) ==
    SortList(SetIter(Range(ConfiguredGroups[g]) \cap Range(claim.diagnosis_codes), AllCodes))

\* the overlaps of the groups with more than one code present, in group order
RECURSIVE ExpectedExclusive(_)
ExpectedExclusive(n) ==
    IF n = 0 THEN <<>>
    ELSE IF Len(GroupOverlap(n)) > 1
    THEN Append(ExpectedExclusive(n - 1), GroupOverlap(n))
    ELSE ExpectedExclusive(n - 1)

\* C9: each configured group with more than one code among the diagnoses
\* raises exactly one Medical issue naming the codes present, and a group
\* with at most one code present raises none, repeated codes or not
C9_OneIssuePerExclusiveGroup ==
    (/\ Evaluated
     /\ impl \in {"engine", "validator", "pipeline"}
     /\ (ConfiguredGroups # <<>> \/ impl = "engine")) =>
        LET at == Positions(result, "mutually exclusive diagnoses")
            got == SelectSeq(result.explanations,
                             LAMBDA e : e.kind = "mutually exclusive diagnoses")
        IN  /\ [i \in DOMAIN got |-> got[i].args] = ExpectedExclusive(Len(ConfiguredGroups))
            /\ \A i \in at : result.issues[i] = "Medical"

\* C9 witness: E66.9 then E66.3 against two groups that hold both
C9_Witness ==
    /\ Evaluated
    /\ claim.diagnosis_codes = <<E66_9, E66_3>>
    /\ Cardinality(Positions(result, "mutually exclusive diagnoses")) = 2

\* C10: the end-to-end claim under loader-built rules is a Technical error
\* with a service-approval and a paid-amount message and no Medical issue
C10_EndToEndScenario ==
    (/\ Evaluated
     /\ impl \in {"engine", "validator", "pipeline"}
     /\ rules \in {LoadedMinimal, LoadedFacilities}
     /\ rules.paid_threshold_aed = 25000
     /\ claim.encounter_type = INPATIENT
     /\ claim.service_code = SRV1003
     /\ claim.paid_amount_aed = Num(80573)
     /\ claim.approval_number = NA
     /\ claim.diagnosis_codes = <<E66_3>>) =>
        /\ ErrorClass(result.error_type) = "Technical"
        /\ Positions(result, "service requires approval") # {}
        /\ Positions(result, "paid exceeds threshold") # {}
        /\ "Medical" \notin Range(result.issues)

\* C11: in the returned explanations every explanation of a Technical issue
\* comes before every explanation of a Medical issue
C11_TechnicalBeforeMedical ==
    (Evaluated /\ impl \in {"engine", "validator", "pipeline"}) =>
        \A i, j \in DOMAIN result.issues :
            (result.issues[i] = "Technical" /\ result.issues[j] = "Medical") => i < j

\* the action strings of the issues raised for the claim, in rule order
IssueActions ==
    IF impl = "engine"
    THEN LET issues == EngineIssues(claim, rules, AllCodes)
         IN  [i \in DOMAIN issues |-> issues[i].action]
    ELSE LET f == VFindings(claim, rules, AllCodes)
         IN  Flatten([i \in DOMAIN f |-> f[i].actions])

\* the category boilerplate for a final error_type, in either spelling
Boilerplate(t) ==
    IF ErrorClass(t) = "Technical" THEN DefaultActions("Technical error")
    ELSE IF ErrorClass(t) = "Medical" THEN DefaultActions("Medical error")
    ELSE DefaultActions(t)

\* C12: recommended_actions holds no string twice: the issue actions in rule
\* order, first occurrences only, then the boilerplate of the final error_type
C12_ActionsAreDeduplicated ==
    (Evaluated /\ impl \in {"engine", "validator", "pipeline"}
        /\ result.explanations # <<>>) =>
        /\ \A i, j \in DOMAIN result.recommended_actions :
              result.recommended_actions[i] = result.recommended_actions[j] => i = j
        /\ result.recommended_actions
              = Dedup(IssueActions \o Boilerplate(result.error_type))

\* the seed of the first rule, in execution order, that asked for an approval
FirstApprovalSeed ==
    LET dxAt == Positions(result, "diagnosis requires approval")
    IN  IF Positions(result, "service requires approval") # {}
        THEN Seed(claim.claim_id, claim.service_code)
        ELSE IF dxAt # {}
        THEN Seed(claim.claim_id,
                  result.explanations[CHOOSE i \in dxAt : \A j \in dxAt : i <= j].args)
        ELSE Seed(claim.claim_id, PaidTag \o FloatStr(PaidOrZero(claim.paid_amount_aed)))

\* C13: when rules fire for absent approval the corrections map holds one
\* approval_number, the one generated for the first of them in execution
\* order; later triggers leave it alone
C13_FirstCorrectionWins ==
    (Evaluated /\ impl \in {"validator", "pipeline"}) =>
        LET fired == \E k \in ApprovalKinds : Positions(result, k) # {}
        IN  IF fired
            THEN /\ DOMAIN result.corrections = {"approval_number"}
                 /\ result.corrections["approval_number"]
                        = GenerateApprovalNumber(FirstApprovalSeed)
            ELSE result.corrections = <<>>

\* C13 witness: service, diagnosis and threshold all fire and would each
\* generate a different number
C13_Witness ==
    /\ Evaluated
    /\ impl = "validator"
    /\ \A k \in ApprovalKinds : Positions(result, k) # {}
    /\ Len(claim.diagnosis_codes) = 1
    /\ LET a == GenerateApprovalNumber(Seed(claim.claim_id, claim.service_code))
           b == GenerateApprovalNumber(Seed(claim.claim_id, claim.diagnosis_codes[1]))
           c == GenerateApprovalNumber(
                    Seed(claim.claim_id, PaidTag \o FloatStr(claim.paid_amount_aed.fils)))
       IN  a # b /\ b # c /\ a # c /\ result.corrections["approval_number"] = a

\* C14: validating a claim leaves its input fields as they were handed in;
\* approval_number is the one input column the loop assigns
C14_ClaimFieldsUnchanged ==
    (impl = "pipeline" /\ pc \in {"llm called", "persisted"}) =>
        row.approval_number = claim.approval_number

\* C15: a paid amount that float() rejects does not abort adjudication: the
\* threshold rule sees 0 and a Technical issue describes the malformed amount
C15_MalformedAmountIsReported ==
    (Evaluated /\ FloatRaises(claim.paid_amount_aed)) =>
        /\ Positions(result, "paid exceeds threshold") = {}
        /\ \E i \in Positions(result, "Invalid paid_amount_aed value") :
              result.issues[i] = "Technical"

\* the optional tables of a bundle, by the key that holds them in id_rules
OptionalTables ==
    {"inpatient_only_services", "outpatient_only_services", "service_diagnosis_map",
     "mutually_exclusive_diagnoses"}

\* the explanations only a rule driven by an optional table can raise
TableDrivenKinds ==
    {"INPATIENT-only", "OUTPATIENT-only", "not allowed for facility type",
     "service requires diagnoses", "mutually exclusive diagnoses"}

\* C16: with a bundle whose optional tables are missing or empty adjudication
\* completes and raises no encounter-type, facility-type, configured
\* service-diagnosis or mutual-exclusivity issue
C16_MissingTablesRaiseNothing ==
    (/\ Evaluated
     /\ impl \in {"engine", "validator", "pipeline"}
     /\ \A t \in OptionalTables : Get(rules.id_rules, t, <<>>) = <<>>
     /\ rules.facility_registry = <<>>
     /\ rules.service_allowed_facility_types = <<>>) =>
        \A k \in TableDrivenKinds : Positions(result, k) = {}

\* the final action the classes call for
ExpectedFinalAction(class) ==
    IF class = "No error" THEN "accept"
    ELSE IF class = "Medical" THEN "escalate"
    ELSE "reject"

\* C18: the Refined row written by the static validation engine and by the
\* agent validation engine carries accept for a claim with no error, escalate
\* for a claim classified Medical only, reject for Technical or Both
C18_FinalActionFollowsClass ==
    (impl \in {"pipeline", "tools"} /\ pc = "persisted" /\ refined # NoRefined) =>
        refined.final_action = ExpectedFinalAction(ErrorClass(refined.error_type))

\* the same statement for the agent validation engine alone
C18_AgentFinalAction ==
    (impl = "tools" /\ pc = "persisted" /\ refined # NoRefined) =>
        refined.final_action = ExpectedFinalAction(ErrorClass(refined.error_type))

\* the claim carries N39.0 and a service other than SRV2005
N39WithoutSRV2005 ==
    /\ \E i \in DOMAIN claim.diagnosis_codes : claim.diagnosis_codes[i] = N39_0
    /\ claim.service_code # SRV2005

\* C20: a claim with diagnosis N39.0 and a service_code other than SRV2005
\* gets a Medical issue, whatever the service-to-diagnosis map holds
C20_N39NeedsSRV2005 ==
    (Evaluated /\ N39WithoutSRV2005) =>
        \E i \in DOMAIN result.issues : result.issues[i] = "Medical"

\* the same statement for ModularRuleEngine alone
C20_EngineN39NeedsSRV2005 ==
    (Evaluated /\ impl = "engine" /\ N39WithoutSRV2005) =>
        \E i \in DOMAIN result.issues : result.issues[i] = "Medical"

(* ------------- the approval-number generator on its own ---------------- *)

InitApproval ==
    /\ rules = BundleDirect
    /\ impl = "validator"
    /\ claim = NoClaim
    /\ result = NoResult
    /\ prev = NoResult
    /\ runs = 0
    /\ row = PendingRow(NoClaim)
    /\ refined = NoRefined
    /\ pc = "idle"
    /\ batch = NoBatch
    /\ gen \in {[digest |-> d, out |-> <<>>] : d \in Digests}
    /\ db = NoDb

\* Validator._generate_approval_number returns
GenerateStep ==
    /\ gen.out = <<>>
    /\ gen' = [gen EXCEPT !.out = ApprovalFromDigest(gen.digest)]
    /\ UNCHANGED <<rules, impl, claim, result, prev, runs, row, refined, pc, batch, db>>

NextApproval == GenerateStep

SpecApproval == InitApproval /\ [][NextApproval]_vars

InitShared ==
    /\ rules \in SharedBundles
    /\ impl = "engine"
    /\ claim = NoClaim
    /\ result = NoResult
    /\ prev = NoResult
    /\ runs = 0
    /\ row = PendingRow(NoClaim)
    /\ refined = NoRefined
    /\ pc = "idle"
    /\ batch = [bundle0 |-> rules, calls |-> [k \in CallIds |-> IdleCall]]
    /\ gen = NoGen
    /\ db = NoDb

SetCall(k, c) == batch' = [batch EXCEPT !.calls[k] = c]

SharedFrame == UNCHANGED <<impl, claim, result, prev, runs, row, refined, pc, gen, db>>

\* a thread enters ModularRuleEngine(rules).adjudicate(claim)
BeginAdjudicate(k, c) ==
    /\ batch.calls[k].pc = "idle"
    /\ SetCall(k, [IdleCall EXCEPT !.kind = "engine", !.claim = c, !.step = 1,
                                   !.pc = "running"])
    /\ UNCHANGED rules
    /\ SharedFrame

\* one pass of the loops of adjudicate: issues.extend(rule.apply(claim, self.rules))
ApplyNextRule(k) ==
    LET call == batch.calls[k]
    IN  /\ call.kind = "engine"
        /\ call.pc = "running"
        /\ call.step <= EngineRuleCount
        /\ SetCall(k, [call EXCEPT
                         !.issues = @ \o EngineRuleAt(call.step, call.claim, rules, AllCodes),
                         !.step = @ + 1])
        /\ UNCHANGED rules
        /\ SharedFrame

\* adjudicate returns
AdjudicateReturns(k) ==
    LET call == batch.calls[k]
    IN  /\ call.kind = "engine"
        /\ call.pc = "running"
        /\ call.step > EngineRuleCount
        /\ SetCall(k, [call EXCEPT !.result = EngineResultOf(call.issues), !.pc = "done"])
        /\ UNCHANGED rules
        /\ SharedFrame

\* a thread constructs Validator(rules) for its claim
ConstructValidator(k, c) ==
    /\ batch.calls[k].pc = "idle"
    /\ \E v \in {ValidatorInit(rules)} :
          /\ rules' = v.rules
          /\ SetCall(k, [IdleCall EXCEPT !.kind = "validator", !.claim = c, !.step = 1,
                                         !.pc = "running"])
    /\ SharedFrame

\* the thread's validator.run_all(claim) returns
RunAllReturns(k) ==
    LET call == batch.calls[k]
    IN  /\ call.kind = "validator"
        /\ call.pc = "running"
        /\ SetCall(k, [call EXCEPT !.result = RunAll(call.claim, rules, AllCodes),
                                   !.pc = "done"])
        /\ UNCHANGED rules
        /\ SharedFrame

NextShared ==
    \/ \E k \in CallIds, c \in SharedClaims : BeginAdjudicate(k, c)
    \/ \E k \in CallIds : ApplyNextRule(k)
    \/ \E k \in CallIds : AdjudicateReturns(k)
    \/ \E k \in CallIds, c \in SharedClaims : ConstructValidator(k, c)
    \/ \E k \in CallIds : RunAllReturns(k)

SpecShared == InitShared /\ [][NextShared]_vars

\* what the call returns when it runs alone on the bundle of the batch
Alone(call) ==
    IF call.kind = "engine" THEN EngineAdjudicate(call.claim, batch.bundle0, AllCodes)
    ELSE RunAll(call.claim, batch.bundle0, AllCodes)

\* C17: whatever the interleaving of the calls that share the bundle, the
\* bundle stays as it was handed to the batch and every finished call has
\* returned what it returns when it runs alone
C17_SharedBundleIsReadOnly ==
    /\ rules = batch.bundle0
    /\ \A k \in CallIds :
          batch.calls[k].pc = "done" => batch.calls[k].result = Alone(batch.calls[k])

C17_Witness ==
    /\ batch.calls[1].kind = "engine" /\ batch.calls[1].pc = "running"
    /\ batch.calls[1].step = EngineRuleCount /\ batch.calls[1].issues # <<>>
    /\ batch.calls[2].kind = "validator" /\ batch.calls[2].pc = "done"
    /\ batch.calls[2].result.explanations # <<>>
    /\ batch.calls[1].claim # batch.calls[2].claim

\* the required-diagnosis set the evaluator in use holds for the claim's service
RequiredDiagnoses ==
    IF impl = "engine"
    THEN Range(Get(Get(rules.id_rules, "service_diagnosis_map", <<>>),
                   OrEmpty(claim.service_code), <<>>))
    ELSE Get(ValidatorServiceDiagnosisMap(rules), claim.service_code, {})

\* a provided diagnosis equals a required code or starts with one
RequirementMet ==
    \E code \in RequiredDiagnoses : \E i \in DOMAIN claim.diagnosis_codes :
        claim.diagnosis_codes[i] = code \/ StartsWith(claim.diagnosis_codes[i], code)

\* C21: when the service has a non-empty required-diagnosis set, the
\* service-diagnosis issue is raised exactly when no provided diagnosis equals
\* or starts with a required code, a claim without diagnosis codes included
C21_ServiceDiagnosisIssueIffNoMatch ==
    (Evaluated /\ impl \in {"engine", "validator", "pipeline"} /\ RequiredDiagnoses # {}) =>
        (Positions(result, "service requires diagnoses") # {} <=> ~RequirementMet)

\* the same statement for ModularRuleEngine alone
C21_EngineServiceDiagnosis ==
    (impl = "engine") => C21_ServiceDiagnosisIssueIffNoMatch

\* the approval_number is one of the values that stand for "no approval"
ApprovalIsSentinel == ~Truthy(claim.approval_number) \/ claim.approval_number \in Sentinels

\* the distinct codes of the claim that need approval
DxNeedingApproval ==
    {claim.diagnosis_codes[i] : i \in DOMAIN claim.diagnosis_codes}
        \cap rules.diagnoses_requiring_approval

\* C22: with approval absent there is one Medical issue for each distinct
\* diagnosis code of the claim that requires approval, a repeated code counting
\* once; with approval present there is no diagnosis-approval issue
C22_OneIssuePerDistinctDiagnosis ==
    Evaluated =>
        LET at == Positions(result, "diagnosis requires approval")
        IN  IF ApprovalIsSentinel
            THEN /\ Cardinality(at) = Cardinality(DxNeedingApproval)
                 /\ \A i \in at : result.issues[i] = "Medical"
            ELSE at = {}

\* the statement counting every occurrence of a code in the claim's list
C22_OneIssuePerOccurrence ==
    (Evaluated /\ impl = "engine") =>
        LET at == Positions(result, "diagnosis requires approval")
            occ == {i \in DOMAIN claim.diagnosis_codes :
                       claim.diagnosis_codes[i] \in rules.diagnoses_requiring_approval}
        IN  IF ApprovalIsSentinel THEN Cardinality(at) = Cardinality(occ) ELSE at = {}

\* C23: the paid-threshold issue is raised exactly when the paid amount is
\* strictly above the threshold and the approval_number is one of the
\* sentinels; any other approval_number raises none however large the amount
C23_ThresholdIssueIffAboveAndAbsent ==
    (Evaluated /\ impl \in {"engine", "validator", "pipeline"}
     /\ ~FloatRaises(claim.paid_amount_aed)) =>
        (Positions(result, "paid exceeds threshold") # {}
            <=> (PaidOrZero(claim.paid_amount_aed) > rules.paid_threshold_aed
                 /\ ApprovalIsSentinel))

\* the same statement for ModularRuleEngine alone
C23_EngineThreshold ==
    (impl = "engine") => C23_ThresholdIssueIffAboveAndAbsent

\* C24: once a claim has been processed by a validation engine, with or
\* without the LLM or the agent, its status is Validated iff its error_type is
\* No error, and its error_type is a value of the error_type column
C24_StatusAgreesWithErrorType ==
    (impl \in {"pipeline", "tools"} /\ pc = "persisted") =>
        /\ row.status = "Validated" <=> row.error_type = "No error"
        /\ row.error_type \in ErrorTypeEnum

\* the first half of the statement on its own
C24_ValidatedIffNoError ==
    (impl \in {"pipeline", "tools"} /\ pc = "persisted") =>
        (row.status = "Validated" <=> row.error_type = "No error")

\* C26: the Refined row created for a claim carries the status and the
\* error_type the claim's Master row holds when the iteration ends, also
\* when the LLM reconciliation changed the error_type
C26_RefinedMatchesMaster ==
    (impl \in {"pipeline", "tools"} /\ pc = "persisted" /\ refined # NoRefined) =>
        /\ refined.status = row.status
        /\ refined.error_type = row.error_type

\* the same statement for the agent validation engine alone
C26_AgentRefinedMatchesMaster ==
    (impl = "tools") => C26_RefinedMatchesMaster

\* the defaults the loader holds for the allowed-facility table
DefaultAllowedFacilityTypes ==
    (SRV2008 :> <<"MATERNITY_HOSPITAL">>) @@ (SRV1003 :> <<"DIALYSIS_CENTER">>)
    @@ (SRV2010 :> <<"DIALYSIS_CENTER">>) @@ (SRV2001 :> <<"CARDIOLOGY_CENTER">>)
    @@ (SRV2011 :> <<"CARDIOLOGY_CENTER">>)

\* the bundle field holds the entries of id_rules["service_allowed_facility_types"]
AllowedTablesAgree ==
    rules.service_allowed_facility_types = rules.id_rules["service_allowed_facility_types"]

\* C29: in a bundle returned by load_rules_for_tenant, the field
\* service_allowed_facility_types holds the loader's default entry for every
\* service the tenant config does not define, whether or not the config has
\* the table, and so holds the entries of the table kept in id_rules
C29_LoadedAllowedTableHasDefaults ==
    (rules \in {LoadedMinimal, LoadedFacilities}) =>
        /\ \A svc \in DOMAIN DefaultAllowedFacilityTypes :
              svc \in DOMAIN rules.service_allowed_facility_types
        /\ AllowedTablesAgree

\* the statement for the tenant config that has the table
C29_ConfiguredTableHasDefaults ==
    (rules = LoadedFacilities) =>
        /\ \A svc \in DOMAIN DefaultAllowedFacilityTypes :
              svc \in DOMAIN rules.service_allowed_facility_types
        /\ AllowedTablesAgree

(* ------------------ validation batches over a tenant's tables ---------- *)

InitBatch ==
    /\ rules = BundleGroups
    /\ impl = "pipeline"
    /\ claim = NoClaim
    /\ result = NoResult
    /\ prev = NoResult
    /\ runs = 0
    /\ row = PendingRow(NoClaim)
    /\ refined = NoRefined
    /\ pc = "idle"
    /\ batch = NoBatch
    /\ gen = NoGen
    /\ \E e \in {"static", "agent"} :
         \E care \in [TenantRows -> TenantCare] :
            db = [NoDb EXCEPT !.engine = e,
                              !.master = [k \in TenantRows |-> MasterRow(k, care[k])]]

BatchFrame ==
    UNCHANGED <<rules, impl, claim, result, prev, runs, row, refined, pc, batch, gen>>

\* the Audit rows an iteration adds
AuditEntries(k, actions) == [j \in DOMAIN actions |-> [claim |-> k, action |-> actions[j]]]

\* what a validation left behind, kept next to the row
Outcome(status, r, corrected) ==
    [status |-> status,
     kinds |-> {r.explanations[j].kind : j \in DOMAIN r.explanations}
                  \ {"Generated approval_number"},
     corrected |-> corrected]

\* the rows of SELECT error_type, count(id) ... GROUP BY error_type
RECURSIVE GroupByErrorType(_, _)
GroupByErrorType(master, n) ==
    IF n = 0 THEN <<>>
    ELSE LET t == ErrorTypeOrder[n]
             cnt == Cardinality({k \in DOMAIN master : master[k].row.error_type = t})
         IN  GroupByErrorType(master, n - 1)
                \o (IF cnt > 0 THEN <<[error_category |-> t, claim_count |-> cnt]>> ELSE <<>>)

\* ValidationEngine._update_metrics: one more Metrics row per group
StaticUpdateMetrics(metrics, master) ==
    metrics \o GroupByErrorType(master, Len(ErrorTypeOrder))

\* AgentValidationEngine._update_metrics: the tenant's rows deleted first
AgentUpdateMetrics(metrics, master) ==
    GroupByErrorType(master, Len(ErrorTypeOrder))

\* _get_chart_data: sum(Metrics.claim_count) of one error_category
RECURSIVE ChartCount(_, _, _)
ChartCount(metrics, t, n) ==
    IF n = 0 THEN 0
    ELSE ChartCount(metrics, t, n - 1)
            + (IF metrics[n].error_category = t THEN metrics[n].claim_count ELSE 0)

\* validate_specific_claims(claim_ids): the rows are fetched and handed to the loop
ValidateSpecificClaims(S) ==
    /\ db.phase \in {"idle", "returned"}
    /\ db.batches < MaxBatches
    /\ S # {}
    /\ db' = [db EXCEPT !.ids = S, !.todo = S, !.cur = 0, !.audit = <<>>,
                        !.counters = NoCounters, !.phase = "running"]
    /\ BatchFrame

NextOf(todo) == CHOOSE k \in todo : \A j \in todo : k <= j

\* one iteration of the loop of ValidationEngine._validate_claims_list up to
\* the call of the LLM client; a Validated claim, and a claim whose
\* model_to_dict raises, end the iteration here
StaticIteration(ord) ==
    /\ db.engine = "static"
    /\ db.phase = "running"
    /\ db.cur = 0
    /\ db.todo # {}
    /\ \E k \in {NextOf(db.todo)} :
         \E r \in {RunAll(db.master[k].claim, rules, ord)} :
           \E static \in {StaticRow(db.master[k].claim, r)} :
             \E called \in {static.status = "Not Validated"
                               /\ ~FloatRaises(db.master[k].claim.paid_amount_aed)} :
               \E after \in {IF called THEN static
                             ELSE LlmMerge(db.master[k].claim, static,
                                           [kind |-> "none", error_type |-> ""])} :
                  db' = [db EXCEPT
                     !.master[k] =
                        [claim |-> [db.master[k].claim EXCEPT
                                       !.approval_number = static.approval_number],
                         row |-> after,
                         history |-> Append(db.master[k].history,
                                       Outcome(static.status, r,
                                               "approval_number" \in DOMAIN r.corrections))],
                     !.audit = @ \o AuditEntries(k,
                                  <<"validation_started", "validation_completed">>
                                  \o (IF static.status = "Not Validated"
                                      THEN <<"llm_evaluation_started">> ELSE <<>>)
                                  \o (IF static.status = "Not Validated" /\ ~called
                                      THEN <<after.llm>> ELSE <<>>)),
                     !.counters = IF static.status = "Validated"
                                  THEN [@ EXCEPT !.validated = @ + 1]
                                  ELSE [@ EXCEPT !.failed = @ + 1],
                     !.cur = IF called THEN k ELSE 0,
                     !.todo = IF called THEN @ ELSE @ \ {k}]
    /\ BatchFrame

\* the LLM client returns and the iteration ends
StaticLlmReturns(resp) ==
    /\ db.engine = "static"
    /\ db.phase = "running"
    /\ db.cur # 0
    /\ \E k \in {db.cur} :
         \E merged \in {LlmMerge(db.master[k].claim, db.master[k].row, resp)} :
            db' = [db EXCEPT !.master[k].row = merged,
                             !.audit = @ \o AuditEntries(k, <<merged.llm>>),
                             !.cur = 0,
                             !.todo = @ \ {k}]
    /\ BatchFrame

\* one iteration of the loop of AgentValidationEngine._validate_claims_with_agent
AgentBatchIteration ==
    /\ db.engine = "agent"
    /\ db.phase = "running"
    /\ db.todo # {}
    /\ \E k \in {NextOf(db.todo)} :
         \E ar \in {FallbackValidation(ValidateClaimComprehensive(db.master[k].claim, rules))}
                    \cup ParsedAgentResults :
           \E it \in {AgentIteration(db.master[k].claim, ar)} :
              db' = [db EXCEPT
                 !.master[k].row = it.row,
                 !.master[k].history =
                     Append(@, [status |-> it.row.status, kinds |-> {}, corrected |-> FALSE]),
                 !.audit = @ \o AuditEntries(k,
                              IF it.raised THEN <<"validation_failed">>
                              ELSE <<"validation_started", "validation_completed">>),
                 !.counters =
                     IF it.raised
                     THEN [@ EXCEPT !.agent_errors = @ + 1, !.failed = @ + 1]
                     ELSE IF it.row.status = "Validated"
                     THEN [@ EXCEPT !.validated = @ + 1]
                     ELSE [@ EXCEPT !.failed = @ + 1],
                 !.todo = @ \ {k}]
    /\ BatchFrame

\* the loop is over: commit, _update_metrics, and the counters are returned
BatchReturns ==
    /\ db.phase = "running"
    /\ db.cur = 0
    /\ db.todo = {}
    /\ db' = [db EXCEPT
                !.metrics = IF db.engine = "static"
                            THEN StaticUpdateMetrics(db.metrics, db.master)
                            ELSE AgentUpdateMetrics(db.metrics, db.master),
                !.batches = @ + 1,
                !.phase = "returned"]
    /\ BatchFrame

NextBatch ==
    \/ \E S \in SUBSET (TenantRows) : ValidateSpecificClaims(S)
    \/ \E ord \in IterOrders : StaticIteration(ord)
    \/ \E resp \in BatchLlmResponses : StaticLlmReturns(resp)
    \/ AgentBatchIteration
    \/ BatchReturns

SpecBatch == InitBatch /\ [][NextBatch]_vars

\* the chart count of an error type and the rows that hold it
ChartAgreesWithMaster ==
    \A n \in DOMAIN ErrorTypeOrder :
        ChartCount(db.metrics, ErrorTypeOrder[n], Len(db.metrics))
            = Cardinality({k \in DOMAIN db.master :
                              db.master[k].row.error_type = ErrorTypeOrder[n]})

\* C25: after any sequence of batches, the chart count of each error type is
\* the number of the tenant's claims that hold that error type
C25_ChartCountsMatchClaims ==
    (db.phase = "returned") => ChartAgreesWithMaster

\* the same statement for the agent validation engine alone
C25_AgentChartCounts ==
    (db.engine = "agent") => C25_ChartCountsMatchClaims

\* the same statement after the first batch of a tenant
C25_FirstBatchChartCounts ==
    (db.batches = 1) => C25_ChartCountsMatchClaims

\* C27: once a batch has applied a generated approval_number to a claim, the
\* next validation of the claim raises no approval issue, and a claim whose
\* only issues were approval issues is Not Validated after that validation
\* and Validated after the next
C27_CorrectedClaimValidatesNextTime ==
    (db.engine = "static") =>
        \A k \in DOMAIN db.master :
            \A n \in 1..(Len(db.master[k].history) - 1) :
                LET h == db.master[k].history
                IN  /\ h[n].corrected => h[n + 1].kinds \cap ApprovalKinds = {}
                    /\ (h[n].kinds # {} /\ h[n].kinds \subseteq ApprovalKinds) =>
                          (h[n].status = "Not Validated" /\ h[n + 1].status = "Validated")

C27_Witness ==
    /\ db.engine = "static"
    /\ Len(db.master[1].history) = 2
    /\ db.master[1].history[1].corrected
    /\ db.master[1].history[1].kinds = {"service requires approval", "paid exceeds threshold"}
    /\ db.master[1].history[1].status = "Not Validated"
    /\ db.master[1].history[2].status = "Validated"
    /\ db.master[1].claim.approval_number \notin Sentinels

\* the positions of the audit entries of claim k with one of the actions
AuditAt(k, actions) ==
    {p \in DOMAIN db.audit : db.audit[p].claim = k /\ db.audit[p].action \in actions}

LlmOutcomes ==
    {"llm_evaluation_completed", "llm_evaluation_failed", "llm_evaluation_exception"}

\* C28: in the static engine's batch, every claim gets validation_started
\* before exactly one validation_completed, and every llm_evaluation_started
\* is followed, before any entry of another claim, by exactly one of
\* llm_evaluation_completed, llm_evaluation_failed, llm_evaluation_exception
C28_AuditTrailIsWellFormed ==
    (db.engine = "static" /\ db.phase \in {"running", "returned"} /\ db.cur = 0) =>
        \A k \in db.ids \ db.todo :
            /\ Cardinality(AuditAt(k, {"validation_started"})) = 1
            /\ Cardinality(AuditAt(k, {"validation_completed"})) = 1
            /\ \A p \in AuditAt(k, {"validation_started"}) :
                  \A q \in AuditAt(k, {"validation_completed"}) : p < q
            /\ Cardinality(AuditAt(k, LlmOutcomes))
                  = Cardinality(AuditAt(k, {"llm_evaluation_started"}))
            /\ \A p \in AuditAt(k, {"llm_evaluation_started"}) :
                  /\ p + 1 \in AuditAt(k, LlmOutcomes)
                  /\ \A q \in AuditAt(k, LlmOutcomes) : q = p + 1

C28_Witness ==
    /\ db.engine = "static" /\ db.phase = "returned" /\ db.ids = {1, 2}
    /\ Len(db.audit) = 8
    /\ db.audit[4].action = "llm_evaluation_exception"
    /\ db.audit[8].action = "llm_evaluation_completed"

\* the claims of the batch on which _claim_to_dict raises
RaisingClaims == {k \in db.ids : FloatRaises(db.master[k].claim.paid_amount_aed)}

====
